---- MODULE Spec2Model ----
(***************************************************************************)
(* Model of the ModelSignature Python SDK: the request executor            *)
(* (ModelSignatureClient._request), the local token inspection functions   *)
(* and the policy engine (PolicyEnforcer) of src/modelsignature.           *)
(*                                                                         *)
(* Python values are tagged records, so that values of different Python    *)
(* types can be told apart:                                                *)
(*   None / JSON null   [t |-> "null"]                                     *)
(*   bool               [t |-> "bool", b |-> TRUE]                         *)
(*   str                [t |-> "str",  s |-> <<"p1">>], a sequence of      *)
(*                      pieces, so that formatting is concatenation (\o);  *)
(*                      the empty string is <<>>                           *)
(*   int                [t |-> "num",  n |-> 5]                            *)
(*   dict               [t |-> "dict", d |-> function from keys to values] *)
(*   list               [t |-> "list", l |-> sequence of values]           *)
(*   dataclass instance [t |-> "obj",  f |-> function from fields]         *)
(* An exception message is such a sequence of pieces too.  Optional[int]   *)
(* is <<>> (None) or <<n>>.                                                *)
(***************************************************************************)
EXTENDS Integers, Sequences, FiniteSets, TLC

VARIABLES
    config,       \* PolicyEnforcer.config
    max_retries,  \* ModelSignatureClient.max_retries
    token,        \* the token presented to the call
    wire,         \* what the remote service answers, attempt by attempt
    now,          \* int(time.time()) during the call
    pc,           \* "idle" before the call, then the name of the call made
    ret,          \* outcome of the call
    args,         \* the arguments of the call other than the token
    cache,        \* ModelSignatureClient._verification_cache
    calls         \* number of create_verification calls made so far

vars == <<config, max_retries, token, wire, now, pc, ret, args, cache, calls>>

(***************************************************************************)
(* Python values                                                           *)
(***************************************************************************)
PyNone == [t |-> "null"]

PyBool(b) == [t |-> "bool", b |-> b]

PyStr(s) == [t |-> "str", s |-> IF s = "" THEN <<>> ELSE <<s>>]

\* a str given by its pieces
PyText(pieces) == [t |-> "str", s |-> pieces]

PyNum(n) == [t |-> "num", n |-> n]

PyDict(d) == [t |-> "dict", d |-> d]

PyList(l) == [t |-> "list", l |-> l]

PyObj(f) == [t |-> "obj", f |-> f]

EmptyMap == [k \in {} |-> PyNone]

EmptyDict == PyDict(EmptyMap)

\* bool(v)
Truthy(v) ==
    CASE v.t = "null" -> FALSE
      [] v.t = "bool" -> v.b
      [] v.t = "str"  -> v.s # <<>>
      [] v.t = "num"  -> v.n # 0
      [] v.t = "dict" -> DOMAIN v.d # {}
      [] v.t = "list" -> Len(v.l) # 0
      [] OTHER        -> TRUE

\* a == b
PyEq(a, b) == a.t = b.t /\ a = b

\* d.get(k, dflt) for a dict d
DictGet(d, k, dflt) == IF k \in DOMAIN d.d THEN d.d[k] ELSE dflt

\* type(v).__name__
TypeName(v) ==
    CASE v.t = "null" -> "NoneType"
      [] v.t = "bool" -> "bool"
      [] v.t = "str"  -> "str"
      [] v.t = "num"  -> "int"
      [] v.t = "dict" -> "dict"
      [] v.t = "list" -> "list"
      [] OTHER        -> "object"

\* str(v), as pieces
StrOf(v) ==
    CASE v.t = "null" -> <<"None">>
      [] v.t = "bool" -> IF v.b THEN <<"True">> ELSE <<"False">>
      [] v.t = "str"  -> v.s
      [] v.t = "num"  -> <<ToString(v.n)>>
      [] OTHER        -> <<"<", TypeName(v), ">">>

\* the message of the AttributeError of v.get(...) on a value that is no dict
NoGetMessage(v) == <<"'", TypeName(v), "' object has no attribute 'get'">>

None == <<>>

Some(x) == <<x>>

Min(a, b) == IF a < b THEN a ELSE b

(***************************************************************************)
(* The request executor: ModelSignatureClient._request                     *)
(*                                                                         *)
(* An element of wire is what one HTTP attempt meets:                      *)
(*   kind         "conn" (requests.RequestException) or "http"             *)
(*   status       the status code of the response                          *)
(*   json         <<>> when resp.json() raises ValueError, else <<value>>  *)
(*   text         resp.text, or str(exc) of the connection error           *)
(*   retry_after  the Retry-After header: <<>> absent, <<[isint, n]>>      *)
(*   jitter       0.5 + random.random() of this attempt, in hundredths     *)
(* The service answers attempt i (0-based) with wire[i + 1]; beyond the    *)
(* end of wire it keeps giving the last answer.  Delays are in hundredths  *)
(* of a second.                                                            *)
(***************************************************************************)
\* a schedule that grows faster
backoff_Steep == <<1, 4, 16>>

backoff == <<1, 2, 4>>

RespAt(w, attempt) == w[Min(attempt + 1, Len(w))]

Returned(body, attempt, sleeps) ==
    [raised |-> FALSE, etype |-> "", msg |-> <<>>, retry_after |-> None,
     body |-> body, attempts |-> attempt + 1, sleeps |-> sleeps]

Raised(etype, msg, retry_after, attempts, sleeps) ==
    [raised |-> TRUE, etype |-> etype, msg |-> msg, retry_after |-> retry_after,
     body |-> PyNone, attempts |-> attempts, sleeps |-> sleeps]

\* a delay that keeps doubling beyond the last entry of backoff
JitteredDelay_Unclamped(attempt, resp) == (2 ^ attempt) * resp.jitter

\* float(backoff[min(attempt, len(backoff) - 1)]) * (0.5 + random.random())
JitteredDelay(attempt, resp) ==
    backoff[Min(attempt, Len(backoff) - 1) + 1] * resp.jitter

\* time.sleep(backoff[min(attempt, len(backoff) - 1)])
PlainDelay(attempt) == backoff[Min(attempt, Len(backoff) - 1) + 1] * 100

RECURSIVE JoinMsgs(_)
\* "; ".join(e.get("msg", str(e)) for e in errors), every e a dict
JoinMsgs(errors) ==
    IF Len(errors) = 0 THEN <<>>
    ELSE LET e == Head(errors)
             m == StrOf(DictGet(e, "msg", PyStr("<dict>")))
         IN IF Len(errors) = 1 THEN m ELSE m \o <<"; ">> \o JoinMsgs(Tail(errors))

\* resp.json().get("detail", resp.text) under "except ValueError: detail = resp.text":
\* [raises, detail]; a body that is JSON but no dict raises AttributeError
DetailOf(resp) ==
    IF resp.json = None THEN [raises |-> FALSE, detail |-> <<resp.text>>]
    ELSE LET j == resp.json[1]
         IN IF j.t # "dict" THEN [raises |-> TRUE, detail |-> NoGetMessage(j)]
            ELSE [raises |-> FALSE, detail |-> StrOf(DictGet(j, "detail", PyStr(resp.text)))]

\* the detail of a 422 response
Detail422(resp) ==
    IF resp.json = None THEN [raises |-> FALSE, detail |-> <<resp.text>>]
    ELSE LET j == resp.json[1]
         IN IF j.t # "dict" THEN [raises |-> FALSE, detail |-> StrOf(j)]
            ELSE LET e1 == DictGet(j, "errors", PyNone)
                     errors == IF Truthy(e1) THEN e1 ELSE DictGet(j, "detail", PyNone)
                 IN IF errors.t # "list" THEN [raises |-> FALSE, detail |-> StrOf(errors)]
                    ELSE IF \E i \in 1..Len(errors.l) : errors.l[i].t # "dict"
                         THEN [raises |-> TRUE,
                               detail |-> NoGetMessage(
                                   errors.l[CHOOSE i \in 1..Len(errors.l) :
                                       /\ errors.l[i].t # "dict"
                                       /\ \A k \in 1..(i - 1) : errors.l[k].t = "dict"])]
                         ELSE [raises |-> FALSE, detail |-> JoinMsgs(errors.l)]

\* int(resp.headers.get("Retry-After", "1")): [raises, n]
RetryAfterOf(resp) ==
    IF resp.retry_after = None THEN [raises |-> FALSE, n |-> 1]
    ELSE IF resp.retry_after[1].isint THEN [raises |-> FALSE, n |-> resp.retry_after[1].n]
    ELSE [raises |-> TRUE, n |-> 0]

\* a 2xx branch that returns None for a body that is no JSON
ParseBody_NoneOnBadJson(resp, attempt, sleeps) ==
    IF resp.json = None
    THEN Returned(PyNone, attempt, sleeps)
    ELSE Returned(resp.json[1], attempt, sleeps)

\* the 2xx branch: return resp.json(), or raise when the body is no JSON
ParseBody(resp, attempt, sleeps) ==
    IF resp.json = None
    THEN Raised("ModelSignatureError", <<"Invalid JSON response">>, None, attempt + 1,
                sleeps)
    ELSE Returned(resp.json[1], attempt, sleeps)

\* a tail that reports the unclassified status as a validation failure
ApiError_AsValidation(resp, attempt, sleeps) ==
    Raised("ValidationError",
           <<"API Error ", ToString(resp.status), ": ", resp.text>>, None, attempt + 1,
           sleeps)

\* raise ModelSignatureError(f"API Error {resp.status_code}: {resp.text}")
ApiError(resp, attempt, sleeps) ==
    Raised("ModelSignatureError",
           <<"API Error ", ToString(resp.status), ": ", resp.text>>, None, attempt + 1,
           sleeps)

RECURSIVE Attempt(_, _, _, _)
\* one iteration of "for attempt in range(self.max_retries)" and what follows it
Attempt(w, retries, attempt, sleeps) ==
    IF attempt >= retries
    THEN Raised("ModelSignatureError", <<"Request failed">>, None, attempt, sleeps)
    ELSE
    LET resp == RespAt(w, attempt)
        last == attempt >= retries - 1
        n    == attempt + 1
    IN
    IF resp.kind = "conn" THEN
        IF last THEN Raised("NetworkError", <<resp.text>>, None, n, sleeps)
        ELSE Attempt(w, retries, attempt + 1, Append(sleeps, JitteredDelay(attempt, resp)))
    ELSE IF resp.status \in {401, 403} THEN
        LET d == DetailOf(resp)
        IN IF d.raises THEN Raised("AttributeError", d.detail, None, n, sleeps)
           ELSE Raised("AuthenticationError", d.detail, None, n, sleeps)
    ELSE IF resp.status = 404 THEN
        Raised("ValidationError",
               <<"Model ID not found. Register at modelsignature.com">>, None, n, sleeps)
    ELSE IF resp.status = 422 THEN
        LET d == Detail422(resp)
        IN IF d.raises THEN Raised("AttributeError", d.detail, None, n, sleeps)
           ELSE Raised("ValidationError", <<"Invalid parameters: ">> \o d.detail,
                       None, n, sleeps)
    ELSE IF resp.status = 429 THEN
        LET ra == RetryAfterOf(resp)
        IN IF ra.raises
           THEN Raised("ValueError", <<"invalid literal for int()">>, None, n, sleeps)
           ELSE IF last
           THEN Raised("RateLimitError",
                       <<"Rate limit exceeded. Retry after ", ToString(ra.n), " seconds">>,
                       Some(ra.n), n, sleeps)
           ELSE Attempt(w, retries, attempt + 1, Append(sleeps, ra.n * 100))
    ELSE IF resp.status \in {502, 503, 504} THEN
        IF last
        THEN Raised("NetworkError", <<"ModelSignature API is temporarily unavailable">>,
                    None, n, sleeps)
        ELSE Attempt(w, retries, attempt + 1, Append(sleeps, JitteredDelay(attempt, resp)))
    ELSE IF resp.status >= 500 THEN
        LET d == DetailOf(resp)
        IN IF d.raises THEN Raised("AttributeError", d.detail, None, n, sleeps)
           ELSE IF last
           THEN Raised("NetworkError",
                       <<"Server error ", ToString(resp.status), ": ">> \o d.detail,
                       None, n, sleeps)
           ELSE Attempt(w, retries, attempt + 1,
                        Append(sleeps, JitteredDelay(attempt, resp)))
    ELSE IF 200 <= resp.status /\ resp.status < 300 THEN
        ParseBody(resp, attempt, sleeps)
    ELSE IF last
    THEN ApiError(resp, attempt, sleeps)
    ELSE Attempt(w, retries, attempt + 1, Append(sleeps, PlainDelay(attempt)))

\* a request executor that makes one attempt at least
Request_AtLeastOnce(w, retries) ==
    Attempt(w, IF retries < 1 THEN 1 ELSE retries, 0, <<>>)

\* self._request(method, endpoint, **kwargs) against the answers w
Request(w, retries) == Attempt(w, retries, 0, <<>>)

(***************************************************************************)
(* Token inspection: parse_jwt, get_token_age, is_valid_token_format       *)
(*                                                                         *)
(* A token is [isstr, text, payload]: whether the argument is a str, its   *)
(* characters (one-character strings), and what decoding the middle        *)
(* segment yields, [kind, value] with kind "b64err" (urlsafe_b64decode     *)
(* raises), "utf8err" (decode raises), "jsonerr" (json.loads raises) or    *)
(* "value" (json.loads returns value).                                     *)
(***************************************************************************)
\* the characters the class [A-Za-z0-9_-] holds, among those of the model
Base64UrlChars == {"a", "b", "c", "Z", "7", "-", "_"}

RECURSIVE SplitFrom(_, _, _)
\* text.split(sep), the segment being read kept in cur
SplitFrom(text, sep, cur) ==
    IF Len(text) = 0 THEN <<cur>>
    ELSE IF Head(text) = sep THEN <<cur>> \o SplitFrom(Tail(text), sep, <<>>)
    ELSE SplitFrom(Tail(text), sep, Append(cur, Head(text)))

Split(text, sep) == SplitFrom(text, sep, <<>>)

\* re.compile(r'^[A-Za-z0-9_-]+$').match(part): $ also matches before a final newline
PatternMatch(part) ==
    LET body == IF Len(part) > 0 /\ part[Len(part)] = "\n"
                THEN SubSeq(part, 1, Len(part) - 1) ELSE part
    IN /\ Len(body) > 0
       /\ \A i \in 1..Len(body) : body[i] \in Base64UrlChars

is_valid_token_format(tok) ==
    IF ~tok.isstr \/ Len(tok.text) = 0 THEN FALSE
    ELSE LET parts == Split(tok.text, ".")
         IN IF Len(parts) # 3 THEN FALSE
            ELSE \A i \in 1..Len(parts) : PatternMatch(parts[i])

\* parse_jwt(token): the payload, or PyNone
parse_jwt(tok) ==
    IF ~tok.isstr THEN PyNone
    ELSE IF Len(Split(tok.text, ".")) # 3 THEN PyNone
    ELSE IF tok.payload.kind # "value" THEN PyNone
    ELSE tok.payload.value

\* key in payload: [raises, found]; a str of the model is atomic, so that key is a
\* substring of it exactly when the two are equal
Contains(payload, key) ==
    CASE payload.t = "dict" -> [raises |-> FALSE, found |-> key \in DOMAIN payload.d]
      [] payload.t = "list" ->
           [raises |-> FALSE,
            found |-> \E i \in 1..Len(payload.l) :
                         payload.l[i].t = "str" /\ payload.l[i].s = <<key>>]
      [] payload.t = "str"  -> [raises |-> FALSE, found |-> payload.s = <<key>>]
      [] OTHER              -> [raises |-> TRUE, found |-> FALSE]

\* now - payload[key], payload holding key: [kind, n, msg]
Subtract(payload, key, t) ==
    IF payload.t # "dict"
    THEN [kind |-> "raise", n |-> 0,
          msg |-> <<TypeName(payload), " indices must be integers">>]
    ELSE LET v == payload.d[key]
         IN CASE v.t = "num"  -> [kind |-> "int", n |-> t - v.n, msg |-> <<>>]
              [] v.t = "bool" -> [kind |-> "int", n |-> t - (IF v.b THEN 1 ELSE 0),
                                  msg |-> <<>>]
              [] OTHER        ->
                   [kind |-> "raise", n |-> 0,
                    msg |-> <<"unsupported operand type(s) for -: 'int' and '",
                              TypeName(v), "'">>]

\* get_token_age(token) at time t: [kind, n, msg], kind "none", "int" or "raise"
get_token_age(tok, t) ==
    LET payload == parse_jwt(tok)
        NoAge == [kind |-> "none", n |-> 0, msg |-> <<>>]
    IN IF ~Truthy(payload) THEN NoAge
       ELSE LET c == Contains(payload, "iat")
            IN IF c.raises
               THEN [kind |-> "raise", n |-> 0,
                     msg |-> <<"argument of type '", TypeName(payload),
                               "' is not iterable">>]
               ELSE IF ~c.found THEN NoAge
               ELSE Subtract(payload, "iat", t)

(***************************************************************************)
(* The policy engine: PolicyEnforcer                                       *)
(***************************************************************************)
\* VerificationResult(valid=..., claims=..., ...), absent arguments None
VerificationResult(valid, claims, model, provider, bundle_check, error) ==
    [valid |-> valid, claims |-> claims, model |-> model, provider |-> provider,
     bundle_check |-> bundle_check, error |-> error]

InvalidResult(error) ==
    VerificationResult(FALSE, PyNone, PyNone, PyNone, PyNone, error)

\* JWTClaims(model_id=claims_data.get('model_id', ''), ...)
JWTClaims(claims_data) ==
    PyObj([model_id          |-> DictGet(claims_data, "model_id", PyStr("")),
           provider_id       |-> DictGet(claims_data, "provider_id", PyStr("")),
           user_fp           |-> DictGet(claims_data, "user_fp", PyStr("")),
           deployment_id     |-> DictGet(claims_data, "deployment_id", PyNone),
           model_digest      |-> DictGet(claims_data, "model_digest", PyNone),
           response_hash     |-> DictGet(claims_data, "response_hash", PyNone),
           bound_to_response |-> DictGet(claims_data, "bound_to_response", PyBool(FALSE)),
           iat               |-> DictGet(claims_data, "iat", PyNum(0)),
           exp               |-> DictGet(claims_data, "exp", PyNum(0)),
           jti               |-> DictGet(claims_data, "jti", PyStr(""))])

\* ModelInfo(id=model_data.get('id', ''), ...)
ModelInfo(model_data) ==
    PyObj([id                  |-> DictGet(model_data, "id", PyStr("")),
           name                |-> DictGet(model_data, "name", PyStr("")),
           version             |-> DictGet(model_data, "version", PyStr("")),
           type                |-> DictGet(model_data, "type", PyNone),
           model_digest        |-> DictGet(model_data, "model_digest", PyNone),
           sigstore_bundle_url |-> DictGet(model_data, "sigstore_bundle_url", PyNone),
           bundle_status       |-> DictGet(model_data, "bundle_status", PyNone),
           bundle_last_checked |-> DictGet(model_data, "bundle_last_checked", PyNone)])

\* ProviderInfo(id=provider_data.get('id', ''), ...)
ProviderInfo(provider_data) ==
    PyObj([id                 |-> DictGet(provider_data, "id", PyStr("")),
           name               |-> DictGet(provider_data, "name", PyStr("")),
           website            |-> DictGet(provider_data, "website", PyNone),
           verification_level |-> DictGet(provider_data, "verification_level", PyNone),
           domain_verified    |-> DictGet(provider_data, "domain_verified", PyNone)])

\* BundleCheck(status=bundle_data.get('status', 'unknown'), ...)
BundleCheck(bundle_data) ==
    PyObj([status       |-> DictGet(bundle_data, "status", PyStr("unknown")),
           last_checked |-> DictGet(bundle_data, "last_checked", PyNone),
           details      |-> DictGet(bundle_data, "details", PyNone)])

\* the first of the four on which .get is called although it is no dict, as <<v>>, or
\* <<>>: .get is called on claims_data always, on the others only when they are truthy
FirstNoGet(claims_data, model_data, provider_data, bundle_data) ==
    IF claims_data.t # "dict" THEN <<claims_data>>
    ELSE IF Truthy(model_data) /\ model_data.t # "dict" THEN <<model_data>>
    ELSE IF Truthy(provider_data) /\ provider_data.t # "dict" THEN <<provider_data>>
    ELSE IF Truthy(bundle_data) /\ bundle_data.t # "dict" THEN <<bundle_data>>
    ELSE <<>>

\* the body of verify_token's try block, the response received: the result returned,
\* or the one its "except Exception" builds
DecodeResponse(response) ==
    IF response.t # "dict"
    THEN InvalidResult(PyText(<<"Verification failed: ">> \o NoGetMessage(response)))
    ELSE IF ~Truthy(DictGet(response, "valid", PyBool(FALSE)))
    THEN LET e == DictGet(response, "error", PyStr("Unknown verification error"))
         IN InvalidResult(e)
    ELSE
    LET claims_data   == DictGet(response, "claims", EmptyDict)
        model_data    == DictGet(response, "model", EmptyDict)
        provider_data == DictGet(response, "provider", EmptyDict)
        bundle_data   == DictGet(response, "bundle_check", EmptyDict)
        bad == FirstNoGet(claims_data, model_data, provider_data, bundle_data)
    IN IF bad # <<>>
       THEN InvalidResult(PyText(<<"Verification failed: ">> \o NoGetMessage(bad[1])))
       ELSE VerificationResult(
                TRUE,
                JWTClaims(claims_data),
                IF Truthy(model_data) THEN ModelInfo(model_data) ELSE PyNone,
                IF Truthy(provider_data) THEN ProviderInfo(provider_data) ELSE PyNone,
                IF Truthy(bundle_data) THEN BundleCheck(bundle_data) ELSE PyNone,
                PyNone)

\* verify_token without its format check: every token is sent to the service
verify_token_NoFormatCheck(tok, w, retries) ==
    LET r == Request(w, retries)
    IN IF r.raised
       THEN [vr |-> InvalidResult(PyText(<<"Verification failed: ">> \o r.msg)),
             requests |-> r.attempts]
       ELSE [vr |-> DecodeResponse(r.body), requests |-> r.attempts]

\* verify_token whose except clause leaves str(e) out of the error
verify_token_DropsMessage(tok, w, retries) ==
    IF ~is_valid_token_format(tok)
    THEN [vr |-> InvalidResult(PyStr("Invalid token format")), requests |-> 0]
    ELSE LET r == Request(w, retries)
         IN IF r.raised
            THEN [vr |-> InvalidResult(PyStr("Verification failed")),
                  requests |-> r.attempts]
            ELSE [vr |-> DecodeResponse(r.body), requests |-> r.attempts]

\* a verify_token that falls back on the token alone when the service cannot be
\* reached
verify_token_TrustsLocalClaims(tok, w, retries) ==
    IF ~is_valid_token_format(tok)
    THEN [vr |-> InvalidResult(PyStr("Invalid token format")), requests |-> 0]
    ELSE LET r == Request(w, retries)
         IN IF r.raised
            THEN [vr |-> VerificationResult(TRUE, JWTClaims(EmptyDict), PyNone, PyNone,
                                            PyNone, PyNone),
                  requests |-> r.attempts]
            ELSE [vr |-> DecodeResponse(r.body), requests |-> r.attempts]

\* verify_token(token): [vr, requests], the result and the HTTP attempts it made
verify_token(tok, w, retries) ==
    IF ~is_valid_token_format(tok)
    THEN [vr |-> InvalidResult(PyStr("Invalid token format")), requests |-> 0]
    ELSE LET r == Request(w, retries)
         IN IF r.raised
            THEN [vr |-> InvalidResult(PyText(<<"Verification failed: ">> \o r.msg)),
                  requests |-> r.attempts]
            ELSE [vr |-> DecodeResponse(r.body), requests |-> r.attempts]

\* the token age rule
AgeRule(cfg, age) ==
    IF cfg.max_token_age = None THEN <<>>
    ELSE IF age.kind = "none" THEN << <<"Unable to determine token age">> >>
    ELSE IF age.n > cfg.max_token_age[1]
    THEN << <<"Token is too old: ", ToString(age.n), "s > ",
              ToString(cfg.max_token_age[1]), "s">> >>
    ELSE <<>>

DeploymentRule(cfg, claims) ==
    IF cfg.require_deployment_id /\ ~Truthy(claims.f.deployment_id)
    THEN << <<"Deployment ID is required but not present in token">> >>
    ELSE <<>>

DigestRule(cfg, claims) ==
    IF cfg.require_model_digest /\ ~Truthy(claims.f.model_digest)
    THEN << <<"Model digest is required but not present in token">> >>
    ELSE <<>>

BundleRule(cfg, bundle_check) ==
    IF ~cfg.require_bundle_verification THEN <<>>
    ELSE IF ~Truthy(bundle_check)
    THEN << <<"Bundle verification is required but no bundle information available">> >>
    ELSE IF ~PyEq(bundle_check.f.status, PyStr("verified"))
    THEN << <<"Bundle verification failed: status is '">>
              \o StrOf(bundle_check.f.status) \o <<"'">> >>
    ELSE <<>>

\* x.id in allowed, allowed a list of str
IdIn(x, allowed) ==
    /\ x.f.id.t = "str"
    /\ \E i \in 1..Len(allowed) : x.f.id.s = <<allowed[i]>>

\* the allow-list rule of providers (what = "Provider") and of models ("Model")
AllowRule(what, allowed, x) ==
    IF Len(allowed) = 0 THEN <<>>
    ELSE IF ~Truthy(x) \/ ~IdIn(x, allowed)
    THEN << <<what, " '">>
              \o (IF Truthy(x) THEN StrOf(x.f.id) ELSE <<"unknown">>)
              \o <<"' is not in allowed list">> >>
    ELSE <<>>

\* _check_token_policy(token, verification, violations): [raised, msg, violations],
\* the list after the call, or the exception that left it
_check_token_policy(tok, verification, violations, cfg, t) ==
    IF ~Truthy(verification.claims)
    THEN [raised |-> FALSE, msg |-> <<>>,
          violations |-> Append(violations, <<"No claims found in token">>)]
    ELSE LET age == IF cfg.max_token_age = None
                    THEN [kind |-> "none", n |-> 0, msg |-> <<>>]
                    ELSE get_token_age(tok, t)
         IN IF age.kind = "raise"
            THEN [raised |-> TRUE, msg |-> age.msg, violations |-> violations]
            ELSE [raised |-> FALSE, msg |-> <<>>,
                  violations |->
                      violations
                      \o AgeRule(cfg, age)
                      \o DeploymentRule(cfg, verification.claims)
                      \o DigestRule(cfg, verification.claims)
                      \o BundleRule(cfg, verification.bundle_check)
                      \o AllowRule("Provider", cfg.allowed_providers,
                                   verification.provider)
                      \o AllowRule("Model", cfg.allowed_models, verification.model)]

\* _build_result that passes a fresh list instead of the violations
_build_result_NoReasons(allowed, violations, verification) ==
    [allowed |-> allowed, reasons |-> <<>>, verification |-> verification]

\* _build_result(allowed, violations, verification), verification never None here
_build_result(allowed, violations, verification) ==
    [allowed |-> allowed, reasons |-> violations, verification |-> verification]

NoResult == _build_result(FALSE, <<>>, InvalidResult(PyNone))

\* what a call leaves in ret: it returned result, or raised etype with message emsg
\* (and, for PolicyViolationError, the violations it carries)
Outcome(op, raised, etype, emsg, eviolations, result, requests) ==
    [op |-> op, raised |-> raised, etype |-> etype, emsg |-> emsg,
     eviolations |-> eviolations, result |-> result, requests |-> requests]

RECURSIVE JoinWith(_, _)
\* sep.join(msgs)
JoinWith(sep, msgs) ==
    IF Len(msgs) = 0 THEN <<>>
    ELSE IF Len(msgs) = 1 THEN msgs[1]
    ELSE msgs[1] \o <<sep>> \o JoinWith(sep, Tail(msgs))

\* the end of enforce_policy, after its try statement
Conclude(cfg, violations, verification, requests) ==
    LET allowed == Len(violations) = 0
        result  == _build_result(allowed, violations, verification)
    IN IF ~allowed /\ cfg.fail_closed
       THEN Outcome("enforce_policy", TRUE, "PolicyViolationError",
                    <<"Policy violation: ">> \o JoinWith(", ", violations),
                    violations, NoResult, requests)
       ELSE Outcome("enforce_policy", FALSE, "", <<>>, <<>>, result, requests)

\* the return inside the try statement, taken when the verification is not valid
EarlyReturn(cfg, violations, verification, requests) ==
    Outcome("enforce_policy", FALSE, "", <<>>, <<>>,
            _build_result(FALSE, violations, verification), requests)

\* enforce_policy without the except clause: an exception of the rule evaluation
\* leaves the call
enforce_policy_Uncaught(cfg, tok, w, retries, t) ==
    LET v == verify_token(tok, w, retries)
        verification == v.vr
    IN IF ~verification.valid
       THEN EarlyReturn(cfg,
                        << <<"Token verification failed: ">> \o StrOf(verification.error) >>,
                        verification, v.requests)
       ELSE LET c == _check_token_policy(tok, verification, <<>>, cfg, t)
            IN IF c.raised
               THEN Outcome("enforce_policy", TRUE, "TypeError", c.msg, <<>>, NoResult,
                            v.requests)
               ELSE Conclude(cfg, c.violations, verification, v.requests)

\* enforce_policy without the return after a failed verification: the rules are
\* evaluated on it too
enforce_policy_NoEarlyStop(cfg, tok, w, retries, t) ==
    LET v == verify_token(tok, w, retries)
        verification == v.vr
        first == IF verification.valid THEN <<>>
                 ELSE << <<"Token verification failed: ">> \o StrOf(verification.error) >>
        c == _check_token_policy(tok, verification, first, cfg, t)
    IN IF c.raised
       THEN Conclude(cfg,
                     Append(c.violations, <<"Verification request failed: ">> \o c.msg),
                     InvalidResult(PyText(c.msg)), v.requests)
       ELSE Conclude(cfg, c.violations, verification, v.requests)

\* enforce_policy whose except clause keeps the verification it has
enforce_policy_KeepsVerification(cfg, tok, w, retries, t) ==
    LET v == verify_token(tok, w, retries)
        verification == v.vr
    IN IF ~verification.valid
       THEN EarlyReturn(cfg,
                        << <<"Token verification failed: ">> \o StrOf(verification.error) >>,
                        verification, v.requests)
       ELSE LET c == _check_token_policy(tok, verification, <<>>, cfg, t)
            IN IF c.raised
               THEN Conclude(cfg,
                             Append(c.violations,
                                    <<"Verification request failed: ">> \o c.msg),
                             verification, v.requests)
               ELSE Conclude(cfg, c.violations, verification, v.requests)

\* enforce_policy(token) under configuration cfg at time t
enforce_policy(cfg, tok, w, retries, t) ==
    LET v == verify_token(tok, w, retries)
        verification == v.vr
    IN IF ~verification.valid
       THEN EarlyReturn(cfg,
                        << <<"Token verification failed: ">> \o StrOf(verification.error) >>,
                        verification, v.requests)
       ELSE LET c == _check_token_policy(tok, verification, <<>>, cfg, t)
            IN IF c.raised
               THEN Conclude(cfg,
                             Append(c.violations,
                                    <<"Verification request failed: ">> \o c.msg),
                             InvalidResult(PyText(c.msg)), v.requests)
               ELSE Conclude(cfg, c.violations, verification, v.requests)

(***************************************************************************)
(* The inputs of the policy engine's calls                                 *)
(***************************************************************************)
\* how many transient failures (503) may precede the answer to a request
MaxTransient == 1

\* PolicyConfig values
Configs ==
    [require_deployment_id       : BOOLEAN,
     require_model_digest        : BOOLEAN,
     require_bundle_verification : BOOLEAN,
     allowed_providers           : {<<>>, <<"p1">>},
     allowed_models              : {<<>>, <<"m1">>},
     max_token_age               : {None, Some(300)},
     fail_closed                 : BOOLEAN]

Value(v) == [kind |-> "value", value |-> v]

\* what the middle segment of a token decodes to, at time t
Payloads(t) ==
    { [kind |-> "b64err", value |-> PyNone],
      Value(PyDict("sub" :> PyStr("u1"))),
      Value(PyDict("iat" :> PyNum(t - 400))),
      Value(PyDict("iat" :> PyNum(t - 300))),
      Value(PyDict("iat" :> PyNum(t - 100))),
      Value(PyDict("iat" :> PyStr("yesterday"))),
      Value(PyNum(5)),
      Value(PyStr("iat")),
      Value(PyList(<<PyStr("exp")>>)) }

WellFormedText == <<"a", ".", "b", "-", ".", "c">>

TwoSegments == <<"a", ".", "b">>

FourSegments == <<"a", ".", "b", ".", "c", ".", "Z">>

Token(text, payload) == [isstr |-> TRUE, text |-> text, payload |-> payload]

Tokens(t) ==
    { Token(WellFormedText, p) : p \in Payloads(t) }
    \cup { Token(TwoSegments, [kind |-> "b64err", value |-> PyNone]),
           Token(FourSegments, Value(PyDict("iat" :> PyNum(t - 100)))),
           Token(<<>>, [kind |-> "b64err", value |-> PyNone]),
           [isstr |-> FALSE, text |-> <<>>, payload |-> [kind |-> "b64err", value |-> PyNone]] }

\* the claims object of a verify response
ClaimsData ==
    LET base == ("model_id" :> PyStr("m1")) @@ ("provider_id" :> PyStr("p1"))
                @@ ("user_fp" :> PyStr("u1")) @@ ("iat" :> PyNum(600))
                @@ ("exp" :> PyNum(1500)) @@ ("jti" :> PyStr("j1"))
    IN { PyDict(base),
         PyDict(base @@ ("deployment_id" :> PyStr("d1"))),
         PyDict(base @@ ("model_digest" :> PyStr("sha256:1"))),
         PyDict(base @@ ("deployment_id" :> PyStr("d1"))
                     @@ ("model_digest" :> PyStr("sha256:1"))) }

ModelData ==
    { PyDict(("id" :> PyStr("m1")) @@ ("name" :> PyStr("n")) @@ ("version" :> PyStr("1"))),
      PyDict(("id" :> PyStr("m2")) @@ ("name" :> PyStr("n")) @@ ("version" :> PyStr("1"))) }

ProviderData ==
    { PyDict(("id" :> PyStr("p1")) @@ ("name" :> PyStr("n"))),
      PyDict(("id" :> PyStr("p2")) @@ ("name" :> PyStr("n"))) }

BundleData ==
    { PyDict("status" :> PyStr("verified")),
      PyDict("status" :> PyStr("failed")) }

\* the dict of the members of a verify response that are present (<<>> is absent)
Member(key, opt) == IF opt = <<>> THEN EmptyMap ELSE key :> opt[1]

Optional(S) == {<<>>} \cup { <<x>> : x \in S }

\* verify responses that report valid
ValidBodies ==
    { PyDict(("valid" :> PyBool(TRUE)) @@ Member("claims", c) @@ Member("model", m)
             @@ Member("provider", p) @@ Member("bundle_check", b)) :
        c \in { <<x>> : x \in ClaimsData }, m \in Optional(ModelData),
        p \in Optional(ProviderData), b \in Optional(BundleData) }

\* verify responses with a member missing, null or of another shape
OddBodies ==
    { PyDict("valid" :> PyBool(TRUE)),
      PyDict(("valid" :> PyBool(TRUE)) @@ ("claims" :> PyNone)),
      PyDict(("valid" :> PyBool(TRUE)) @@ ("claims" :> EmptyDict)
             @@ ("model" :> EmptyDict) @@ ("provider" :> PyNone)
             @@ ("bundle_check" :> PyDict("last_checked" :> PyStr("today")))),
      PyDict(("valid" :> PyBool(TRUE))
             @@ ("claims" :> PyDict("deployment_id" :> PyStr("")))
             @@ ("model" :> PyDict("name" :> PyStr("n")))
             @@ ("provider" :> PyStr("p1"))),
      PyList(<<PyStr("valid")>>) }

\* verify responses that report invalid
InvalidBodies ==
    { PyDict(("valid" :> PyBool(FALSE)) @@ ("error" :> PyStr("Token expired"))),
      PyDict("valid" :> PyBool(FALSE)),
      PyDict(("valid" :> PyBool(FALSE)) @@ ("error" :> PyNone)),
      PyDict("error" :> PyStr("Token revoked")),
      PyDict(("valid" :> PyBool(FALSE)) @@ ("claims" :> PyDict("model_id" :> PyStr("m1")))) }

Http(status, json, text) ==
    [kind |-> "http", status |-> status, json |-> json, text |-> text,
     retry_after |-> None, jitter |-> 100]

Ok(body) == Http(200, Some(body), "{...}")

ConnectionError ==
    [kind |-> "conn", status |-> 0, json |-> None, text |-> "Connection refused",
     retry_after |-> None, jitter |-> 100]

\* answers that end a request with an error when they are all the service gives
FailingAnswers ==
    { ConnectionError,
      Http(401, Some(PyDict("detail" :> PyStr("Invalid API key"))), "{...}"),
      Http(404, None, "Not Found"),
      Http(422, Some(PyDict("detail" :> PyStr("bad token"))), "{...}"),
      Http(429, None, "Too Many Requests"),
      Http(503, None, "Service Unavailable"),
      Http(500, None, "Internal Server Error"),
      Http(418, None, "I'm a teapot"),
      Http(200, None, "<html>") }

RECURSIVE Repeat(_, _)
Repeat(x, n) == IF n = 0 THEN <<>> ELSE <<x>> \o Repeat(x, n - 1)

\* the answers of the service to the requests of one call
Wires ==
    { <<Ok(b)>> : b \in ValidBodies \cup OddBodies \cup InvalidBodies }
    \cup { <<a>> : a \in FailingAnswers }
    \cup { Repeat(Http(503, None, "Service Unavailable"), k) \o <<a>> :
             k \in 1..MaxTransient,
             a \in FailingAnswers
                   \cup { Ok(b) : b \in InvalidBodies }
                   \cup { Ok(PyDict(("valid" :> PyBool(TRUE)) @@ ("claims" :> c))) :
                            c \in ClaimsData } }

(***************************************************************************)
(* The policy engine as a state machine: an enforcer with some             *)
(* configuration, over a client, is handed a token; one call is made.      *)
(***************************************************************************)
Idle == Outcome("", FALSE, "", <<>>, <<>>, NoResult, 0)

\* the client has the default max_retries = 3, or it makes one attempt or none
Init ==
    /\ config \in Configs
    /\ \/ max_retries = 3 /\ wire \in Wires
       \/ /\ max_retries \in {0, 1}
          /\ wire \in { <<a>> : a \in FailingAnswers }
                      \cup { <<Ok(b)>> : b \in InvalidBodies }
    /\ now = 1000
    /\ token \in Tokens(1000)
    /\ pc = "idle"
    /\ ret = Idle
    /\ args = <<>>
    /\ cache = EmptyMap
    /\ calls = 0

\* result = enforcer.enforce_policy(token)
EnforcePolicy ==
    /\ pc = "idle"
    /\ pc' = "enforce_policy"
    /\ ret' = enforce_policy(config, token, wire, max_retries, now)
    /\ UNCHANGED <<config, max_retries, token, wire, now, args, cache, calls>>

\* verification = enforcer.verify_token(token); ret holds it in result.verification
VerifyToken ==
    /\ pc = "idle"
    /\ pc' = "verify_token"
    /\ LET v == verify_token(token, wire, max_retries)
       IN ret' = Outcome("verify_token", FALSE, "", <<>>, <<>>,
                         _build_result(FALSE, <<>>, v.vr), v.requests)
    /\ UNCHANGED <<config, max_retries, token, wire, now, args, cache, calls>>

Next == EnforcePolicy \/ VerifyToken

Spec == Init /\ [][Next]_vars

(***************************************************************************)
(* Properties of enforce_policy and verify_token                           *)
(***************************************************************************)
Enforced == pc = "enforce_policy"

\* the violations the call reports: those of the result it returns, or those the
\* PolicyViolationError it raises carries
Violations == IF ret.raised THEN ret.eviolations ELSE ret.result.reasons

\* what the request executor gives for the verify request of this token
Remote == Request(wire, max_retries)

\* the remote call was made and failed
RemoteFailed == is_valid_token_format(token) /\ Remote.raised

\* the remote call was made and its response reports the token invalid
RemoteInvalid ==
    /\ is_valid_token_format(token)
    /\ ~Remote.raised
    /\ Remote.body.t = "dict"
    /\ ~Truthy(DictGet(Remote.body, "valid", PyBool(FALSE)))

\* the remote call was made and verify_token decoded a valid verification from it
RemoteValid ==
    /\ is_valid_token_format(token)
    /\ ~Remote.raised
    /\ DecodeResponse(Remote.body).valid

IsPrefix(p, q) == Len(p) <= Len(q) /\ SubSeq(q, 1, Len(p)) = p

IsSuffix(p, q) == Len(p) <= Len(q) /\ SubSeq(q, Len(q) - Len(p) + 1, Len(q)) = p

\* C1: in fail-closed mode a call of enforce_policy that finds a violation raises
\* PolicyViolationError with the full list of reasons; it never returns a result
\* with allowed = false.
C1_FailClosedRaises ==
    (Enforced /\ config.fail_closed)
        => \/ (~ret.raised /\ ret.result.allowed /\ ret.result.reasons = <<>>)
           \/ (ret.raised /\ ret.etype = "PolicyViolationError"
               /\ Len(ret.eviolations) > 0)

\* C2: in fail-open mode enforce_policy never raises: it returns a result, whose
\* allowed is false and whose reasons are the violations whenever a violation exists
\* (format, remote failure, remote invalid or a rule).
C2_FailOpenReturns ==
    (Enforced /\ ~config.fail_closed)
        => /\ ~ret.raised
           /\ ret.result.allowed = (ret.result.reasons = <<>>)
           /\ (~is_valid_token_format(token) \/ RemoteFailed \/ RemoteInvalid)
                  => (~ret.result.allowed /\ Len(ret.result.reasons) = 1)
           /\ ret.result.allowed => RemoteValid

\* C2 witness: a fail-open call that met an exception during rule evaluation and
\* still returned a result, with allowed = false
C2_Witness ==
    /\ Enforced /\ ~config.fail_closed /\ RemoteValid
    /\ ~ret.raised /\ ~ret.result.allowed
    /\ IsPrefix(<<"Verification request failed: ">>, ret.result.reasons[1])

\* C3: a token that fails is_valid_token_format gets exactly one violation, the one
\* of the invalid format, and no remote request is issued.
C3_MalformedShortCircuit ==
    (Enforced /\ ~is_valid_token_format(token))
        => /\ ret.requests = 0
           /\ Violations = << <<"Token verification failed: ", "Invalid token format">> >>

\* C3 witness: a call with a token of two segments, answered without any request
C3_Witness ==
    /\ Enforced /\ token.text = TwoSegments
    /\ ret.requests = 0 /\ Len(Violations) = 1

\* C4: a failure of the remote verify call is not propagated: it becomes exactly one
\* violation, which contains the message of the failure, and the verification
\* reported has valid = false.
C4_RemoteFailureIsolated ==
    (Enforced /\ RemoteFailed)
        => /\ ret.raised => ret.etype = "PolicyViolationError"
           /\ Len(Violations) = 1
           /\ IsSuffix(Remote.msg, Violations[1])
           /\ ~ret.raised => ~ret.result.verification.valid

\* C4 witness: a call whose verify request ended with NetworkError after all of its
\* attempts
C4_Witness ==
    /\ Enforced /\ RemoteFailed /\ Remote.etype = "NetworkError"
    /\ ret.requests = max_retries /\ Len(Violations) = 1

\* the rule a violation comes from, by the text it starts with
RuleOf(v) ==
    CASE v[1] = "Token is too old: " -> "age"
      [] v[1] = "Unable to determine token age" -> "age"
      [] v[1] = "Deployment ID is required but not present in token" -> "deployment_id"
      [] v[1] = "Model digest is required but not present in token" -> "model_digest"
      [] v[1] = "Bundle verification is required but no bundle information available"
           -> "bundle"
      [] v[1] = "Bundle verification failed: status is '" -> "bundle"
      [] v[1] = "Provider" -> "providers"
      [] v[1] = "Model" -> "models"
      [] v[1] = "No claims found in token" -> "claims"
      [] v[1] = "Token verification failed: " -> "verification"
      [] v[1] = "Verification request failed: " -> "exception"
      [] OTHER -> "other"

Rules(vs) == [i \in 1..Len(vs) |-> RuleOf(vs[i])]

\* C5: when the remote result reports valid = false there is exactly one violation,
\* that of the failed verification, and no rule check adds any, whatever the
\* configuration.
C5_InvalidStops ==
    (Enforced /\ RemoteInvalid) => Rules(Violations) = <<"verification">>

\* C5 witness: a remotely invalid token under a configuration that requires
\* everything, with its single violation
C5_Witness ==
    /\ Enforced /\ RemoteInvalid
    /\ config.require_deployment_id /\ config.require_model_digest
    /\ config.require_bundle_verification /\ config.max_token_age # None
    /\ config.allowed_providers # <<>> /\ config.allowed_models # <<>>
    /\ Len(Violations) = 1

\* the verification verify_token decodes from the remote response
RemoteVerification == DecodeResponse(Remote.body)

\* the claim map local parsing gives, as <<map>>, or <<>> when there is none
LocalClaims ==
    IF /\ token.isstr
       /\ Len(Split(token.text, ".")) = 3
       /\ token.payload.kind = "value"
       /\ token.payload.value.t = "dict"
    THEN <<token.payload.value.d>>
    ELSE <<>>

\* the age of the token is unknown: the token is unparseable or has no iat claim
AgeUnknown == LocalClaims = <<>> \/ "iat" \notin DOMAIN LocalClaims[1]

\* the age now - iat is known and strictly greater than max_age
AgeAbove(max_age) ==
    /\ ~AgeUnknown
    /\ LocalClaims[1]["iat"].t = "num"
    /\ now - LocalClaims[1]["iat"].n > max_age

\* the rules that are triggered for the remotely valid token, as the claims state them
AgeTriggered ==
    config.max_token_age # None /\ (AgeUnknown \/ AgeAbove(config.max_token_age[1]))

DeploymentTriggered ==
    config.require_deployment_id /\ ~Truthy(RemoteVerification.claims.f.deployment_id)

DigestTriggered ==
    config.require_model_digest /\ ~Truthy(RemoteVerification.claims.f.model_digest)

BundleTriggered ==
    /\ config.require_bundle_verification
    /\ \/ RemoteVerification.bundle_check.t = "null"
       \/ RemoteVerification.bundle_check.f.status.s # <<"verified">>

ProvidersTriggered ==
    /\ config.allowed_providers # <<>>
    /\ \/ RemoteVerification.provider.t = "null"
       \/ \A i \in 1..Len(config.allowed_providers) :
              RemoteVerification.provider.f.id.s # <<config.allowed_providers[i]>>

ModelsTriggered ==
    /\ config.allowed_models # <<>>
    /\ \/ RemoteVerification.model.t = "null"
       \/ \A i \in 1..Len(config.allowed_models) :
              RemoteVerification.model.f.id.s # <<config.allowed_models[i]>>

When(b, rule) == IF b THEN <<rule>> ELSE <<>>

TriggeredRules ==
    When(AgeTriggered, "age") \o When(DeploymentTriggered, "deployment_id")
    \o When(DigestTriggered, "model_digest") \o When(BundleTriggered, "bundle")
    \o When(ProvidersTriggered, "providers") \o When(ModelsTriggered, "models")

\* C6: for a remotely valid token the reasons hold exactly one entry for every rule
\* that is triggered, in the fixed order age, deployment id, model digest, bundle,
\* providers, models, and none for a rule that is not triggered.
C6_AllRulesAccumulated ==
    (Enforced /\ RemoteValid) => Rules(Violations) = TriggeredRules

\* C7: every PolicyResult that enforce_policy returns, the one of the early return
\* included, has allowed = true exactly when its reasons are empty.
C7_AllowedIffNoReasons ==
    (Enforced /\ ~ret.raised) => (ret.result.allowed <=> ret.result.reasons = <<>>)

\* C7 witness: a result of the early return for an invalid verification
C7_Witness ==
    /\ Enforced /\ ~ret.raised /\ config.fail_closed
    /\ ~ret.result.verification.valid
    /\ ~ret.result.allowed /\ Len(ret.result.reasons) = 1

\* C8: every VerificationResult of verify_token, or attached to a PolicyResult, has
\* claims when valid = true and an error (not None) when valid = false.
C8_VerificationInvariant ==
    (pc \in {"enforce_policy", "verify_token"} /\ ~ret.raised)
        => LET v == ret.result.verification
           IN /\ v.valid => v.claims.t # "null"
              /\ ~v.valid => v.error.t # "null"

ClaimFields ==
    {"model_id", "provider_id", "user_fp", "deployment_id", "model_digest",
     "response_hash", "bound_to_response", "iat", "exp", "jti"}

\* C9: every nested object (claims, model, provider, bundle_check) and every claim
\* field that the verify response does not carry is None in the decoded result,
\* never a structure or a field of default values.
C9_AbsentIsNone ==
    (pc \in {"enforce_policy", "verify_token"} /\ ~ret.raised
     /\ ret.result.verification.valid)
        => LET v == ret.result.verification
               body == Remote.body.d
           IN /\ "claims" \notin DOMAIN body => v.claims.t = "null"
              /\ "model" \notin DOMAIN body => v.model.t = "null"
              /\ "provider" \notin DOMAIN body => v.provider.t = "null"
              /\ "bundle_check" \notin DOMAIN body => v.bundle_check.t = "null"
              /\ "claims" \in DOMAIN body =>
                     \A f \in ClaimFields :
                         f \notin DOMAIN body["claims"].d => v.claims.f[f].t = "null"

\* C10: with max_token_age configured, a remotely valid token gets an age violation
\* exactly when its locally parsed age is unknown or strictly greater than
\* max_token_age; with max_token_age = None it never gets one.
C10_AgeRule ==
    (Enforced /\ RemoteValid)
        => ((\E i \in 1..Len(Violations) : RuleOf(Violations[i]) = "age") <=> AgeTriggered)

\* some violation reported comes from rule
HasRule(rule) == \E i \in 1..Len(Violations) : RuleOf(Violations[i]) = rule

\* C11: for a remotely valid token a deployment-id violation is reported exactly when
\* require_deployment_id is set and the claims carry no deployment_id, a model-digest
\* violation exactly when require_model_digest is set and the claims carry no
\* model_digest; when the model-digest rule is the only one triggered, the reasons
\* are that single reason, raised in fail-closed mode and returned in fail-open mode.
C11_RequiredClaims ==
    (Enforced /\ RemoteValid)
        => /\ HasRule("deployment_id") <=> DeploymentTriggered
           /\ HasRule("model_digest") <=> DigestTriggered
           /\ TriggeredRules = <<"model_digest">>
                  => /\ Rules(Violations) = <<"model_digest">>
                     /\ ret.raised <=> config.fail_closed

\* C12: with require_bundle_verification set, a remotely valid token gets a bundle
\* violation exactly when the verification has no bundle_check or its status is not
\* "verified"; without the flag it never gets one.
C12_BundleRule ==
    (Enforced /\ RemoteValid) => (HasRule("bundle") <=> BundleTriggered)

\* C13: for allowed_providers and for allowed_models, an empty list never gives a
\* violation, and a non-empty list gives one exactly when the provider (model) is
\* absent from the verification or its id is not in the list.
C13_AllowLists ==
    (Enforced /\ RemoteValid)
        => /\ HasRule("providers") <=> ProvidersTriggered
           /\ HasRule("models") <=> ModelsTriggered

(***************************************************************************)
(* The preset profiles: create_secure_policy and create_lenient_policy.    *)
(* A PolicyConfig is built from keyword arguments, kwargs being the map of *)
(* the fields the caller supplied; the other fields take the defaults of   *)
(* the dataclass.                                                          *)
(***************************************************************************)
PolicyConfigDefaults ==
    [require_deployment_id       |-> FALSE,
     require_model_digest        |-> FALSE,
     require_bundle_verification |-> FALSE,
     allowed_providers           |-> <<>>,
     allowed_models              |-> <<>>,
     max_token_age               |-> Some(900),
     fail_closed                 |-> TRUE]

\* PolicyConfig(**kwargs)
PolicyConfig(kwargs) ==
    [f \in DOMAIN PolicyConfigDefaults |->
        IF f \in DOMAIN kwargs THEN kwargs[f] ELSE PolicyConfigDefaults[f]]

\* the "if config:" block of both presets: every field of the override object is
\* copied, max_token_age unless it is None
Override(preset, override) ==
    IF override # None
    THEN [preset EXCEPT
              !.fail_closed = override[1].fail_closed,
              !.require_deployment_id = override[1].require_deployment_id,
              !.require_model_digest = override[1].require_model_digest,
              !.require_bundle_verification = override[1].require_bundle_verification,
              !.allowed_providers = override[1].allowed_providers,
              !.allowed_models = override[1].allowed_models,
              !.max_token_age = IF override[1].max_token_age # None
                                THEN override[1].max_token_age
                                ELSE @]
    ELSE preset

\* a secure preset that forgets the production age limit
create_secure_policy_DefaultAge(override) ==
    Override(PolicyConfig([fail_closed                 |-> TRUE,
                           require_deployment_id       |-> TRUE,
                           require_model_digest        |-> TRUE,
                           require_bundle_verification |-> FALSE,
                           allowed_providers           |-> <<>>,
                           allowed_models              |-> <<>>]),
             override)

\* create_secure_policy(client, config).config, override being None or <<config>>
create_secure_policy(override) ==
    Override(PolicyConfig([fail_closed                 |-> TRUE,
                           require_deployment_id       |-> TRUE,
                           require_model_digest        |-> TRUE,
                           max_token_age               |-> Some(300),
                           require_bundle_verification |-> FALSE,
                           allowed_providers           |-> <<>>,
                           allowed_models              |-> <<>>]),
             override)

\* create_lenient_policy(client, config).config
create_lenient_policy(override) ==
    Override(PolicyConfig([fail_closed                 |-> FALSE,
                           require_deployment_id       |-> FALSE,
                           require_model_digest        |-> FALSE,
                           max_token_age               |-> Some(3600),
                           require_bundle_verification |-> FALSE,
                           allowed_providers           |-> <<>>,
                           allowed_models              |-> <<>>]),
             override)

\* what a caller does with each field of an override: it leaves the field out (<<>>)
\* or supplies a value for it (<<value>>)
Supplied ==
    [require_deployment_id       : {<<>>, <<FALSE>>, <<TRUE>>},
     require_model_digest        : {<<>>, <<FALSE>>, <<TRUE>>},
     require_bundle_verification : {<<>>, <<FALSE>>, <<TRUE>>},
     allowed_providers           : {<<>>, << <<>> >>, << <<"p1">> >>},
     allowed_models              : {<<>>, << <<>> >>, << <<"m1">> >>},
     max_token_age               : {<<>>, <<None>>, <<Some(60)>>},
     fail_closed                 : {<<>>, <<FALSE>>, <<TRUE>>}]

\* the keyword arguments of an override: the fields supplied, with their values
Kwargs ==
    { [f \in { g \in DOMAIN sup : sup[g] # <<>> } |-> sup[f][1]] : sup \in Supplied }

\* a preset is asked for, without override or with PolicyConfig(**kwargs)
InitProfiles ==
    /\ config = PolicyConfig(EmptyMap)
    /\ max_retries = 3
    /\ wire = <<>>
    /\ now = 1000
    /\ token = Token(WellFormedText, Value(PyDict(EmptyMap)))
    /\ pc = "idle"
    /\ ret = Idle
    /\ args \in { [override |-> FALSE, kwargs |-> EmptyMap] }
                \cup { [override |-> TRUE, kwargs |-> kw] : kw \in Kwargs }
    /\ cache = EmptyMap
    /\ calls = 0

\* the config argument of the call: None, or the PolicyConfig the caller built
OverrideConfig == IF args.override THEN Some(PolicyConfig(args.kwargs)) ELSE None

\* enforcer = create_secure_policy(client, config)
CreateSecurePolicy ==
    /\ pc = "idle"
    /\ pc' = "create_secure_policy"
    /\ config' = create_secure_policy(OverrideConfig)
    /\ UNCHANGED <<max_retries, token, wire, now, ret, args, cache, calls>>

\* enforcer = create_lenient_policy(client, config)
CreateLenientPolicy ==
    /\ pc = "idle"
    /\ pc' = "create_lenient_policy"
    /\ config' = create_lenient_policy(OverrideConfig)
    /\ UNCHANGED <<max_retries, token, wire, now, ret, args, cache, calls>>

NextProfiles == CreateSecurePolicy \/ CreateLenientPolicy

SpecProfiles == InitProfiles /\ [][NextProfiles]_vars

\* the preset values the profiles are documented with
SecurePreset ==
    [fail_closed |-> TRUE, require_deployment_id |-> TRUE,
     require_model_digest |-> TRUE, max_token_age |-> Some(300),
     require_bundle_verification |-> FALSE,
     allowed_providers |-> <<>>, allowed_models |-> <<>>]

LenientPreset ==
    [fail_closed |-> FALSE, require_deployment_id |-> FALSE,
     require_model_digest |-> FALSE, max_token_age |-> Some(3600),
     require_bundle_verification |-> FALSE,
     allowed_providers |-> <<>>, allowed_models |-> <<>>]

\* the configuration in which every supplied field replaces that of the preset
Merged(preset, kwargs) ==
    [f \in DOMAIN preset |-> IF f \in DOMAIN kwargs THEN kwargs[f] ELSE preset[f]]

\* C14: a preset called with an override takes from it each field that was supplied
\* and keeps its preset value for every field that was not.
C14_FieldByFieldMerge ==
    /\ (pc = "create_secure_policy" /\ args.override)
           => config = Merged(SecurePreset, args.kwargs)
    /\ (pc = "create_lenient_policy" /\ args.override)
           => config = Merged(LenientPreset, args.kwargs)

\* C15: without an override create_secure_policy gives the secure preset and
\* create_lenient_policy gives the lenient preset.
C15_Presets ==
    /\ (pc = "create_secure_policy" /\ ~args.override) => config = SecurePreset
    /\ (pc = "create_lenient_policy" /\ ~args.override) => config = LenientPreset

\* C15 witness: the secure preset was created without override and its age limit is
\* the 300 seconds of production
C15_Witness ==
    /\ pc = "create_secure_policy" /\ ~args.override
    /\ config.max_token_age = Some(300) /\ config.fail_closed

(***************************************************************************)
(* quick_check and bind_response of PolicyEnforcer.  An enforcer with some *)
(* configuration of its own, over a client, is handed a token and the      *)
(* other arguments of the call, in args; one call is made.                 *)
(***************************************************************************)
\* what quick_check and bind_response leave in ret: the call returned value, or
\* raised etype with message emsg; requests counts the HTTP attempts made
CallOutcome(op, raised, etype, emsg, value, requests) ==
    [op |-> op, raised |-> raised, etype |-> etype, emsg |-> emsg,
     value |-> value, requests |-> requests]

\* the one-off configuration of quick_check; allowed_providers is None or <<list>>
TempConfig(require_deployment, require_digest, max_age, allowed_providers) ==
    PolicyConfig([require_deployment_id |-> require_deployment,
                  require_model_digest  |-> require_digest,
                  max_token_age         |-> max_age,
                  allowed_providers     |-> IF allowed_providers = None
                                            THEN <<>>
                                            ELSE allowed_providers[1],
                  fail_closed           |-> FALSE])

\* what quick_check makes of the result of enforce_policy: return result.allowed,
\* and return False when enforce_policy raised
QuickOutcome(result) ==
    IF result.raised
    THEN CallOutcome("quick_check", FALSE, "", <<>>, FALSE, result.requests)
    ELSE CallOutcome("quick_check", FALSE, "", <<>>, result.result.allowed,
                     result.requests)

\* a quick_check that evaluates the token under the configuration of the enforcer
quick_check_OwnConfig(cfg, tok, a, w, retries, t) ==
    QuickOutcome(enforce_policy(cfg, tok, w, retries, t))

\* PolicyEnforcer.quick_check(token, require_deployment=..., require_digest=...,
\* max_age=..., allowed_providers=...) of an enforcer whose configuration is cfg
quick_check(cfg, tok, a, w, retries, t) ==
    LET temp_config == TempConfig(a.require_deployment, a.require_digest,
                                  a.max_age, a.allowed_providers)
    IN QuickOutcome(enforce_policy(temp_config, tok, w, retries, t))

\* a bind_response that sends whatever response text it is given
bind_response_AnyText(tok, response_text, w, retries) ==
    IF ~is_valid_token_format(tok)
    THEN CallOutcome("bind_response", TRUE, "ModelSignatureError",
                     <<"Invalid token format">>, PyNone, 0)
    ELSE LET r == Request(w, retries)
         IN CallOutcome("bind_response", r.raised, r.etype, r.msg, r.body, r.attempts)

\* PolicyEnforcer.bind_response(token, response_text)
bind_response(tok, response_text, w, retries) ==
    IF ~is_valid_token_format(tok)
    THEN CallOutcome("bind_response", TRUE, "ModelSignatureError",
                     <<"Invalid token format">>, PyNone, 0)
    ELSE IF ~Truthy(response_text) \/ response_text.t # "str"
    THEN CallOutcome("bind_response", TRUE, "ModelSignatureError",
                     <<"Response text must be a non-empty string">>, PyNone, 0)
    ELSE LET r == Request(w, retries)
         IN CallOutcome("bind_response", r.raised, r.etype, r.msg, r.body, r.attempts)

\* keyword arguments of quick_check, with their defaults among them
QuickArgs ==
    [call               : {"quick_check"},
     require_deployment : BOOLEAN,
     require_digest     : BOOLEAN,
     max_age            : {None, Some(300)},
     allowed_providers  : {None, Some(<<>>), Some(<<"p1">>)}]

\* response texts: None, a number, the empty string, a text
BindArgs ==
    [call          : {"bind_response"},
     response_text : {PyNone, PyNum(5), PyStr(""), PyStr("hello")}]

\* the configurations of the enforcer called: the default one, and one that demands
\* everything and lets nothing through
OwnConfigs ==
    { PolicyConfig(EmptyMap),
      PolicyConfig([require_deployment_id |-> TRUE, require_model_digest |-> TRUE,
                    require_bundle_verification |-> TRUE, max_token_age |-> Some(0),
                    allowed_providers |-> <<"p1">>, allowed_models |-> <<"m1">>]),
      PolicyConfig([max_token_age |-> None, fail_closed |-> FALSE]) }

InitCalls ==
    /\ config \in OwnConfigs
    /\ \/ max_retries = 3 /\ wire \in Wires
       \/ /\ max_retries \in {0, 1}
          /\ wire \in { <<a>> : a \in FailingAnswers }
                      \cup { <<Ok(b)>> : b \in InvalidBodies }
    /\ now = 1000
    /\ token \in Tokens(1000)
    /\ pc = "idle"
    /\ ret = CallOutcome("", FALSE, "", <<>>, PyNone, 0)
    /\ args \in QuickArgs \cup BindArgs
    /\ cache = EmptyMap
    /\ calls = 0

\* ok = enforcer.quick_check(token, ...)
QuickCheck ==
    /\ pc = "idle"
    /\ args.call = "quick_check"
    /\ pc' = "quick_check"
    /\ ret' = quick_check(config, token, args, wire, max_retries, now)
    /\ UNCHANGED <<config, max_retries, token, wire, now, args, cache, calls>>

\* enforcer.bind_response(token, response_text)
BindResponse ==
    /\ pc = "idle"
    /\ args.call = "bind_response"
    /\ pc' = "bind_response"
    /\ ret' = bind_response(token, args.response_text, wire, max_retries)
    /\ UNCHANGED <<config, max_retries, token, wire, now, args, cache, calls>>

NextCalls == QuickCheck \/ BindResponse

SpecCalls == InitCalls /\ [][NextCalls]_vars

\* the token passes the rules quick_check was asked to apply: its age is known and
\* within max_age, the required claims are there, the provider is an allowed one
QuickRulesPass ==
    /\ args.max_age # None
           => /\ get_token_age(token, now).kind = "int"
              /\ get_token_age(token, now).n <= args.max_age[1]
    /\ args.require_deployment => Truthy(RemoteVerification.claims.f.deployment_id)
    /\ args.require_digest => Truthy(RemoteVerification.claims.f.model_digest)
    /\ (args.allowed_providers # None /\ args.allowed_providers[1] # <<>>)
           => /\ RemoteVerification.provider.t # "null"
              /\ \E i \in 1..Len(args.allowed_providers[1]) :
                     RemoteVerification.provider.f.id.s = <<args.allowed_providers[1][i]>>

\* C16: quick_check never raises; it returns true exactly when the token is well
\* formed, remotely valid and passes the rules asked for (evaluated whatever the
\* configuration of the enforcer), and false for every violation and every error.
C16_QuickCheckTotal ==
    pc = "quick_check"
        => /\ ~ret.raised
           /\ ret.value \in BOOLEAN
           /\ ret.value <=> (RemoteValid /\ QuickRulesPass)

\* C16 witness: quick_check returned false, without raising, for a token whose
\* remote verification failed with an error, on an enforcer that is fail-closed
C16_Witness ==
    /\ pc = "quick_check" /\ RemoteFailed /\ config.fail_closed
    /\ ~ret.raised /\ ret.value = FALSE

\* C17: bind_response makes its request only if the token passes
\* is_valid_token_format and the response text is a non-empty string; otherwise it
\* raises ModelSignatureError and makes no request.
C17_BindPreconditions ==
    pc = "bind_response"
        => LET ok == /\ is_valid_token_format(token)
                     /\ args.response_text.t = "str"
                     /\ args.response_text.s # <<>>
           IN /\ ret.requests > 0 => ok
              /\ ~ok => (ret.raised /\ ret.etype = "ModelSignatureError"
                         /\ ret.requests = 0)
              /\ ok => ret.requests = Remote.attempts

\* C17 witness: a well-formed token with an empty response text was refused
\* without any request
C17_Witness ==
    /\ pc = "bind_response" /\ is_valid_token_format(token)
    /\ args.response_text = PyStr("")
    /\ ret.raised /\ ret.requests = 0 /\ Remote.attempts > 0

(***************************************************************************)
(* The verification cache: ModelSignatureClient.create_verification and    *)
(* VerificationResponse.is_expired.                                        *)
(*                                                                         *)
(* Time is counted in seconds; now is datetime.utcnow().  The ISO string   *)
(* of a timestamp is a str that also tells what datetime.fromisoformat     *)
(* reads from it: the instant at (seconds, UTC) and the UTC offset tz it   *)
(* is written with, "" when it is written without offset.  A token of the  *)
(* service likewise tells the time iat it was issued at.  The cache maps   *)
(* the keys <<model_id, user_fingerprint>> to VerificationResponse         *)
(* objects.  pc is "create_verification" right after a call and "idle"     *)
(* again once time has passed.                                             *)
(***************************************************************************)
MaxTime == 2

MaxCalls == 2

\* datetime.isoformat() of the instant at, written with the offset tz
IsoString(at, tz) ==
    [t |-> "str", s |-> <<"1970-01-01T00:00:", ToString(at), tz>>, at |-> at, tz |-> tz]

\* the token the service issues at time iat: a str, told apart by name and iat
JwtString(name, iat) == [t |-> "str", s |-> <<name, ".", ToString(iat)>>, iat |-> iat]

VerificationResponse(verification_url, tok, expires_in, raw_response) ==
    [verification_url |-> verification_url, token |-> tok,
     expires_in |-> expires_in, raw_response |-> raw_response]

\* an is_expired for which an entry without created_at has expired
is_expired_NoTimestampExpired(self, t) ==
    LET created == DictGet(self.raw_response, "created_at", PyNone)
    IN IF ~Truthy(created)
       THEN [raised |-> FALSE, etype |-> "", msg |-> <<>>, value |-> TRUE]
       ELSE [raised |-> FALSE, etype |-> "", msg |-> <<>>,
             value |-> t > created.at + self.expires_in.n]

\* VerificationResponse.is_expired at utcnow() = t: [raised, etype, msg, value]
is_expired(self, t) ==
    LET created == DictGet(self.raw_response, "created_at", PyNone)
    IN IF ~Truthy(created)
       THEN [raised |-> FALSE, etype |-> "", msg |-> <<>>, value |-> FALSE]
       ELSE IF created.t # "str"
       THEN [raised |-> TRUE, etype |-> "TypeError",
             msg |-> <<"fromisoformat: argument must be str">>, value |-> FALSE]
       ELSE IF "at" \notin DOMAIN created
       THEN [raised |-> TRUE, etype |-> "ValueError",
             msg |-> <<"Invalid isoformat string: ">> \o created.s, value |-> FALSE]
       ELSE IF self.expires_in.t # "num"
       THEN [raised |-> TRUE, etype |-> "TypeError",
             msg |-> <<"unsupported type for timedelta seconds component: ",
                       TypeName(self.expires_in)>>,
             value |-> FALSE]
       ELSE IF created.tz # ""
       THEN [raised |-> TRUE, etype |-> "TypeError",
             msg |-> <<"can't compare offset-naive and offset-aware datetimes">>,
             value |-> FALSE]
       ELSE [raised |-> FALSE, etype |-> "", msg |-> <<>>,
             value |-> t > created.at + self.expires_in.n]

\* the first of the fields create_verification reads that resp does not have
MissingField(resp) ==
    LET required == <<"verification_url", "token", "expires_in">>
        missing == { i \in 1..Len(required) : required[i] \notin DOMAIN resp.d }
    IN IF missing = {} THEN None
       ELSE Some(required[CHOOSE i \in missing : \A j \in missing : i <= j])

\* a check of the arguments that lets an empty user_fingerprint through
ArgumentError_AnyFingerprint(model_id, user_fingerprint) ==
    IF Len(model_id) = 0 \/ ~PatternMatch(model_id)
    THEN Some("Invalid model_id format")
    ELSE None

\* the two checks of the arguments: the message of the ValidationError as <<msg>>,
\* or None when they pass
ArgumentError(model_id, user_fingerprint) ==
    IF Len(model_id) = 0 \/ ~PatternMatch(model_id)
    THEN Some("Invalid model_id format")
    ELSE IF user_fingerprint = ""
    THEN Some("user_fingerprint cannot be empty")
    ELSE None

\* a cache key that is the user_fingerprint alone
CacheKey_FingerprintOnly(model_id, user_fingerprint) == <<<<>>, user_fingerprint>>

\* cache_key = (model_id, user_fingerprint)
CacheKey(model_id, user_fingerprint) == <<model_id, user_fingerprint>>

\* a cache that keeps the entry it already has for the key
StoreEntry_KeepFirst(c, cache_key, verification) ==
    IF cache_key \in DOMAIN c THEN c
    ELSE [k \in DOMAIN c \cup {cache_key} |->
             IF k = cache_key THEN verification ELSE c[k]]

\* self._verification_cache[cache_key] = verification
StoreEntry(c, cache_key, verification) ==
    [k \in DOMAIN c \cup {cache_key} |-> IF k = cache_key THEN verification ELSE c[k]]

\* a create_verification that drops the entry of the key when its request fails
create_verification_EvictsOnFailure(c, model_id, user_fingerprint, metadata, w, retries, t) ==
    LET cache_key == CacheKey(model_id, user_fingerprint)
        op == "create_verification"
        cached == c[cache_key]
        expired == is_expired(cached, t)
        r == Request(w, retries)
        verification == VerificationResponse(r.body.d["verification_url"],
                                             r.body.d["token"],
                                             r.body.d["expires_in"], r.body)
    IN IF ArgumentError(model_id, user_fingerprint) # None
       THEN [ret |-> CallOutcome(op, TRUE, "ValidationError",
                                 ArgumentError(model_id, user_fingerprint), PyNone, 0),
             cache |-> c]
       ELSE IF cache_key \in DOMAIN c /\ expired.raised
       THEN [ret |-> CallOutcome(op, TRUE, expired.etype, expired.msg, PyNone, 0),
             cache |-> c]
       ELSE IF cache_key \in DOMAIN c /\ ~expired.value
       THEN [ret |-> CallOutcome(op, FALSE, "", <<>>, cached, 0), cache |-> c]
       ELSE IF r.raised
       THEN [ret |-> CallOutcome(op, TRUE, r.etype, r.msg, PyNone, r.attempts),
             cache |-> [k \in DOMAIN c \ {cache_key} |-> c[k]]]
       ELSE IF r.body.t # "dict"
       THEN [ret |-> CallOutcome(op, TRUE, "TypeError",
                                 <<TypeName(r.body), " is not subscriptable by str">>,
                                 PyNone, r.attempts),
             cache |-> c]
       ELSE IF MissingField(r.body) # None
       THEN [ret |-> CallOutcome(op, TRUE, "KeyError", MissingField(r.body),
                                 PyNone, r.attempts),
             cache |-> c]
       ELSE [ret |-> CallOutcome(op, FALSE, "", <<>>, verification, r.attempts),
             cache |-> StoreEntry(c, cache_key, verification)]

\* ModelSignatureClient.create_verification(model_id, user_fingerprint, metadata) on
\* the cache c at time t: [ret, cache], the outcome and the cache it leaves
create_verification(c, model_id, user_fingerprint, metadata, w, retries, t) ==
    LET cache_key == CacheKey(model_id, user_fingerprint)
        op == "create_verification"
        cached == c[cache_key]
        expired == is_expired(cached, t)
        r == Request(w, retries)
        verification == VerificationResponse(r.body.d["verification_url"],
                                             r.body.d["token"],
                                             r.body.d["expires_in"], r.body)
    IN IF ArgumentError(model_id, user_fingerprint) # None
       THEN [ret |-> CallOutcome(op, TRUE, "ValidationError",
                                 ArgumentError(model_id, user_fingerprint), PyNone, 0),
             cache |-> c]
       ELSE IF cache_key \in DOMAIN c /\ expired.raised
       THEN [ret |-> CallOutcome(op, TRUE, expired.etype, expired.msg, PyNone, 0),
             cache |-> c]
       ELSE IF cache_key \in DOMAIN c /\ ~expired.value
       THEN [ret |-> CallOutcome(op, FALSE, "", <<>>, cached, 0), cache |-> c]
       ELSE IF r.raised
       THEN [ret |-> CallOutcome(op, TRUE, r.etype, r.msg, PyNone, r.attempts),
             cache |-> c]
       ELSE IF r.body.t # "dict"
       THEN [ret |-> CallOutcome(op, TRUE, "TypeError",
                                 <<TypeName(r.body), " is not subscriptable by str">>,
                                 PyNone, r.attempts),
             cache |-> c]
       ELSE IF MissingField(r.body) # None
       THEN [ret |-> CallOutcome(op, TRUE, "KeyError", MissingField(r.body),
                                 PyNone, r.attempts),
             cache |-> c]
       ELSE [ret |-> CallOutcome(op, FALSE, "", <<>>, verification, r.attempts),
             cache |-> StoreEntry(c, cache_key, verification)]

\* model ids "a" and "b", as their characters, and user fingerprints
ModelIds == {<<"a">>, <<"b">>}

Fingerprints == {"f1", "f2"}

\* the arguments of a call: valid pairs that differ in one component or in the
\* other; an empty and a malformed model_id; an
\* empty user_fingerprint; a model_id that ends with a newline
CallKeys ==
    { k \in ModelIds \X Fingerprints : k # <<<<"b">>, "f2">> }
    \cup { <<<<>>, "f1">>, <<<<"a", " ", "b">>, "f1">>, <<<<"a">>, "">>,
           <<<<"a", "\n">>, "f1">> }

MetadataArgs == {PyNone, PyDict("tier" :> PyStr("pro"))}

\* what the service answers to a create request at time t: a verification with one
\* of two tokens, expiring in a second, without created_at or with the time of the
\* service written without or with UTC offset
CreateBodies(t) ==
    { PyDict(created @@ ("verification_url" :> PyStr("https://verify"))
                     @@ ("token" :> JwtString(tk, t))
                     @@ ("expires_in" :> PyNum(1))) :
        tk \in {"t1", "t2"},
        created \in { EmptyMap,
                      "created_at" :> IsoString(t, ""),
                      "created_at" :> IsoString(t, "+00:00") } }

\* the answers of the service to one call: a verification, a body without token, or
\* an error
CreateWires(t) ==
    { <<Ok(b)>> : b \in CreateBodies(t) }
    \cup { <<Ok(PyDict(("verification_url" :> PyStr("https://verify"))
                       @@ ("expires_in" :> PyNum(1))))>>,
           <<Http(401, Some(PyDict("detail" :> PyStr("Invalid API key"))), "{...}")>>,
           <<ConnectionError>> }

\* a client just constructed, with the default max_retries or one that allows no
\* attempt: nothing cached
InitCache ==
    /\ config = PolicyConfig(EmptyMap)
    /\ max_retries \in {-1, 0, 3}
    /\ wire = <<>>
    /\ now = 0
    /\ token = Token(WellFormedText, Value(PyDict(EmptyMap)))
    /\ pc = "idle"
    /\ ret = CallOutcome("", FALSE, "", <<>>, PyNone, 0)
    /\ args = <<>>
    /\ cache = EmptyMap
    /\ calls = 0

\* verification = client.create_verification(model_id, user_fingerprint, metadata)
CreateVerification ==
    /\ calls < MaxCalls
    /\ \E key \in CallKeys, metadata \in MetadataArgs, w \in CreateWires(now) :
           LET r == create_verification(cache, key[1], key[2], metadata, w,
                                        max_retries, now)
           IN /\ args' = [call |-> "create_verification", model_id |-> key[1],
                          user_fingerprint |-> key[2], metadata |-> metadata]
              /\ wire' = w
              /\ ret' = r.ret
              /\ cache' = r.cache
    /\ pc' = "create_verification"
    /\ calls' = calls + 1
    /\ UNCHANGED <<config, max_retries, token, now>>

\* a second passes
Tick ==
    /\ now < MaxTime
    /\ now' = now + 1
    /\ pc' = "idle"
    /\ UNCHANGED <<config, max_retries, token, wire, ret, args, cache, calls>>

NextCache == CreateVerification \/ Tick

SpecCache == InitCache /\ [][NextCache]_vars

\* the key of the create_verification call made last
CalledKey == <<args.model_id, args.user_fingerprint>>

\* the create response of the entry carried a creation timestamp
HasTimestamp(entry) == "created_at" \in DOMAIN entry.raw_response.d

\* the creation timestamp of the entry plus its expires_in seconds is before time t
PastExpiry(entry, t) ==
    /\ HasTimestamp(entry)
    /\ entry.raw_response.d["created_at"].at + entry.expires_in.n < t

\* the response holds all the fields of a verification
Complete(r) == ~r.raised /\ r.body.t = "dict" /\ MissingField(r.body) = None

\* C18: a create_verification call for a key that has a cached entry, made before
\* the entry expires, returns the token of that entry and makes no request.
C18_IdempotentCache ==
    [][ (/\ calls' = calls + 1
         /\ CalledKey' \in DOMAIN cache
         /\ ~PastExpiry(cache[CalledKey'], now))
            => /\ ~ret'.raised
               /\ ret'.requests = 0
               /\ ret'.value.token = cache[CalledKey'].token ]_vars

\* C19: a create_verification call for a key whose cached entry is past its expiry
\* never returns that entry from the cache: it makes the create request, and when
\* the request gives a verification, that one is stored for the key and returned.
C19_ExpiredReplaced ==
    [][ (/\ calls' = calls + 1
         /\ CalledKey' \in DOMAIN cache
         /\ PastExpiry(cache[CalledKey'], now))
            => LET r == Request(wire', max_retries)
               IN /\ ret'.requests = r.attempts /\ r.attempts > 0
                  /\ ret'.raised <=> ~Complete(r)
                  /\ Complete(r)
                         => /\ ret'.value.token = r.body.d["token"]
                            /\ cache'[CalledKey'] = ret'.value ]_vars

\* C20: a create_verification call for a key whose cached entry has no creation
\* timestamp returns that entry, at whatever time, without request, and leaves the
\* cache as it is.
C20_NoTimestampNeverExpires ==
    [][ (/\ calls' = calls + 1
         /\ CalledKey' \in DOMAIN cache
         /\ ~HasTimestamp(cache[CalledKey']))
            => /\ ~ret'.raised
               /\ ret'.requests = 0
               /\ ret'.value = cache[CalledKey']
               /\ cache' = cache ]_vars

\* C20 witness: a call was just answered without request by an entry that has no
\* creation timestamp and whose token was issued more than expires_in seconds ago
C20_Witness ==
    /\ pc = "create_verification"
    /\ ~ret.raised /\ ret.requests = 0
    /\ ~HasTimestamp(ret.value)
    /\ ret.value.token.iat + ret.value.expires_in.n < now
    /\ cache[CalledKey] = ret.value

\* the last call returned from the cache: it did not raise and made no request
ReturnedFromCache == ~ret.raised /\ ret.requests = 0

\* C21: a create_verification call returns from the cache only the entry stored
\* under its own pair (model_id, user_fingerprint), and the only entry of the cache
\* it can change is that of its own pair.
C21_KeyedByPair ==
    [][ calls' = calls + 1
            => /\ ReturnedFromCache'
                      => /\ CalledKey' \in DOMAIN cache
                         /\ ret'.value = cache[CalledKey']
               /\ (~ret'.raised /\ ret'.requests > 0)
                      => ret'.value.raw_response = Request(wire', max_retries).body
               /\ DOMAIN cache \subseteq DOMAIN cache'
               /\ DOMAIN cache' \subseteq DOMAIN cache \cup {CalledKey'}
               /\ \A k \in DOMAIN cache : k # CalledKey' => cache'[k] = cache[k] ]_vars

\* C21 witness: a call made a request and stored its verification although the
\* cache holds, under the same user_fingerprint and another model_id, an entry that
\* never expires; that entry is still there
C21_Witness ==
    /\ pc = "create_verification" /\ ~ret.raised /\ ret.requests > 0
    /\ cache[CalledKey] = ret.value
    /\ \E k \in DOMAIN cache :
           /\ k[1] # CalledKey[1] /\ k[2] = CalledKey[2]
           /\ ~HasTimestamp(cache[k])
           /\ cache[k].token # ret.value.token

MaxWire == 2

\* the largest max_retries a client is given
MaxRetries == 5

\* 0.5 + random.random() lies in [0.5, 1.5): its least value, 1 and its greatest
\* value, in hundredths
Jitters == {50, 100, 149}

WithJitter(resp, j) == [resp EXCEPT !.jitter = j]

WithRetryAfter(resp, ra) == [resp EXCEPT !.retry_after = ra]

\* Retry-After headers: absent, a number of seconds, an HTTP date
RetryAfterHeaders == {None, Some([isint |-> TRUE, n |-> 5]), Some([isint |-> FALSE, n |-> 0])}

\* what one attempt can meet
Answers ==
    { WithJitter(ConnectionError, j) : j \in Jitters }
    \cup { Http(st, Some(PyDict("detail" :> PyStr("Invalid API key"))), "{...}") :
             st \in {401, 403} }
    \cup { Http(401, None, "Unauthorized"),
           Http(401, Some(PyList(<<PyStr("Unauthorized")>>)), "[...]"),
           Http(404, None, "Not Found"),
           Http(422, Some(PyDict("detail" :> PyList(<<PyDict("msg" :> PyStr("too long")),
                                                     PyDict("msg" :> PyStr("no id"))>>))),
                "{...}"),
           Http(422, Some(PyDict("detail" :> PyList(<<PyStr("too long")>>))), "{...}"),
           Http(400, Some(PyDict("detail" :> PyStr("bad request"))), "bad request"),
           Http(418, None, "I'm a teapot"),
           Http(200, Some(PyDict("ok" :> PyBool(TRUE))), "{...}"),
           Http(200, None, "<html>") }
    \cup { WithRetryAfter(Http(429, None, "Too Many Requests"), ra) :
             ra \in RetryAfterHeaders }
    \cup { WithJitter(Http(st, None, "Unavailable"), j) :
             st \in {502, 503, 504}, j \in Jitters }
    \cup { WithJitter(Http(500, Some(PyDict("detail" :> PyStr("boom"))), "{...}"), j) :
             j \in Jitters }
    \cup { Http(500, Some(PyList(<<PyStr("boom")>>)), "[...]"),
           Http(507, None, "Insufficient Storage") }

\* the sequences of answers of length 1..MaxWire
AnswerSeqs == UNION { [1..n -> Answers] : n \in 1..MaxWire }

InitRequest ==
    /\ config = PolicyConfig(EmptyMap)
    /\ max_retries \in 0..MaxRetries
    /\ wire \in AnswerSeqs
    /\ now = 0
    /\ token = Token(WellFormedText, Value(PyDict(EmptyMap)))
    /\ pc = "idle"
    /\ ret = Raised("", <<>>, None, 0, <<>>)
    /\ args = <<>>
    /\ cache = EmptyMap
    /\ calls = 0

\* body = client._request(method, endpoint)
DoRequest ==
    /\ pc = "idle"
    /\ pc' = "_request"
    /\ ret' = Request(wire, max_retries)
    /\ UNCHANGED <<config, max_retries, token, wire, now, args, cache, calls>>

NextRequest == DoRequest

SpecRequest == InitRequest /\ [][NextRequest]_vars

\* the answer attempt i (0-based) of the request met, and its status (0 for a
\* connection error)
Seen(i) == RespAt(wire, i)

Status(i) == IF Seen(i).kind = "http" THEN Seen(i).status ELSE 0

RECURSIVE SumSeq(_)
SumSeq(q) == IF Len(q) = 0 THEN 0 ELSE Head(q) + SumSeq(Tail(q))

\* the request ended at an attempt that met one of the statuses, no earlier attempt
\* having met one of them
EndedOn(statuses) ==
    /\ pc = "_request" /\ ret.attempts >= 1
    /\ Status(ret.attempts - 1) \in statuses

\* every one of the max_retries attempts meets an answer of the kind
EveryAttempt(Kind(_)) ==
    /\ pc = "_request" /\ max_retries >= 1
    /\ \A i \in 0..(max_retries - 1) : Kind(i)

\* C23: a 401 or 403 ends the request with AuthenticationError and a 404 or 422
\* with ValidationError, on whichever attempt it arrives: no attempt follows it and
\* no sleep, the only sleeps being those of the attempts retried before.
C23_NonRetryable ==
    pc = "_request"
        => /\ \A i \in 0..(ret.attempts - 2) : Status(i) \notin {401, 403, 404, 422}
           /\ EndedOn({401, 403})
                  => /\ ret.raised /\ ret.etype = "AuthenticationError"
                     /\ Len(ret.sleeps) = ret.attempts - 1
           /\ EndedOn({404, 422})
                  => /\ ret.raised /\ ret.etype = "ValidationError"
                     /\ Len(ret.sleeps) = ret.attempts - 1

\* C24: a 400 ends the request with ValidationError at once: one attempt when it is
\* the first answer, and never an attempt after it.
C24_BadRequest ==
    pc = "_request"
        => /\ \A i \in 0..(ret.attempts - 2) : Status(i) # 400
           /\ EndedOn({400}) => (ret.raised /\ ret.etype = "ValidationError")

\* the seconds the Retry-After header of attempt i states, 1 when it is absent
RetryAfterSeconds(i) ==
    IF Seen(i).retry_after = None THEN 1 ELSE Seen(i).retry_after[1].n

Is429(i) == Status(i) = 429

\* C25: when every attempt meets a 429, the request makes max_retries attempts and
\* raises RateLimitError carrying the Retry-After seconds of the last response.
C25_RateLimit ==
    EveryAttempt(Is429)
        => /\ ret.raised /\ ret.etype = "RateLimitError"
           /\ ret.attempts = max_retries
           /\ ret.retry_after = Some(RetryAfterSeconds(max_retries - 1))

IsTransient(i) == Seen(i).kind = "conn" \/ Status(i) >= 500

\* C26: when every attempt meets a status >= 500 or a connection error, the request
\* makes max_retries attempts and raises NetworkError.
C26_ExhaustedTransient ==
    EveryAttempt(IsTransient)
        => /\ ret.raised /\ ret.etype = "NetworkError"
           /\ ret.attempts = max_retries

Is503(i) == Status(i) = 503

\* C27 as stated: with max_retries = 3 and a 503 at every attempt, the sleeps of the
\* call add up to between 3.5 and 10.5 seconds.
C27_SleepSevenUnits ==
    (EveryAttempt(Is503) /\ max_retries = 3)
        => /\ (1 + 2 + 4) * 50 <= SumSeq(ret.sleeps)
           /\ SumSeq(ret.sleeps) <= (1 + 2 + 4) * 150

\* C27, amended: with max_retries = 3 and a 503 at every attempt, the call sleeps
\* twice, after its first and its second attempt, and the sleeps add up to at least
\* (1+2) x 0.5 = 1.5 and less than (1+2) x 1.5 = 4.5 seconds.
C27_SleepThreeUnits ==
    (EveryAttempt(Is503) /\ max_retries = 3)
        => /\ ret.attempts = 3 /\ Len(ret.sleeps) = 2
           /\ (1 + 2) * 50 <= SumSeq(ret.sleeps)
           /\ SumSeq(ret.sleeps) < (1 + 2) * 150

\* C27 witness: three attempts met 503, with the least jitter after the first and
\* the greatest after the second: the call slept 0.5 + 2.98 seconds
C27_Witness ==
    /\ EveryAttempt(Is503) /\ max_retries = 3
    /\ ret.etype = "NetworkError"
    /\ ret.sleeps = <<50, 298>>

\* the entry of [1, 2, 4] for a retry after attempt i
Base(i) == <<1, 2, 4>>[Min(i, 2) + 1]

\* attempt i was retried: a sleep followed it
Retried(i) == pc = "_request" /\ i + 1 <= Len(ret.sleeps)

\* C30 as stated: the delay after every retried attempt i, whatever it met, is
\* [1, 2, 4][min(i, 2)] times a factor in [0.5, 1.5).
C30_AllJittered ==
    \A i \in 0..MaxRetries :
        Retried(i) => /\ Base(i) * 50 <= ret.sleeps[i + 1]
                      /\ ret.sleeps[i + 1] < Base(i) * 150

\* C30, amended: the delay after a retried attempt i is [1, 2, 4][min(i, 2)] times a
\* factor in [0.5, 1.5) when the attempt met a connection error or a status >= 500,
\* exactly [1, 2, 4][min(i, 2)] seconds when it met an unclassified status, and the
\* Retry-After seconds of the response (1 when absent) when it met a 429.
C30_RetryDelays ==
    \A i \in 0..MaxRetries :
        Retried(i)
            => /\ IsTransient(i)
                      => /\ Base(i) * 50 <= ret.sleeps[i + 1]
                         /\ ret.sleeps[i + 1] < Base(i) * 150
                         /\ ret.sleeps[i + 1] = Base(i) * Seen(i).jitter
               /\ Is429(i) => ret.sleeps[i + 1] = RetryAfterSeconds(i) * 100
               /\ (~IsTransient(i) /\ ~Is429(i)) => ret.sleeps[i + 1] = Base(i) * 100

\* C30 witness: the attempt of index 3 was retried after a 503 and slept the last
\* entry of the schedule, 4 seconds, times the greatest jitter
C30_Witness ==
    /\ Retried(3) /\ Status(3) = 503
    /\ ret.sleeps[4] = 4 * 149

\* ---------------------------------------------------------------------------
\* is_valid_token_format on its own: the token is drawn, the function applied

MaxLen == 7

\* characters of a token text: two of the class [A-Za-z0-9_-], the separator, a
\* newline and a character outside the class
FormatChars == {"a", "-", ".", "\n", "!"}

FormatTexts == UNION { [1..n -> FormatChars] : n \in 0..MaxLen }

FormatTokens ==
    { Token(text, [kind |-> "b64err", value |-> PyNone]) : text \in FormatTexts }
    \cup { [isstr |-> FALSE, text |-> <<>>, payload |-> [kind |-> "b64err", value |-> PyNone]] }

InitFormat ==
    /\ config = PolicyConfig(EmptyMap)
    /\ max_retries = 3
    /\ token \in FormatTokens
    /\ wire = <<>>
    /\ now = 0
    /\ pc = "idle"
    /\ ret = [value |-> FALSE]
    /\ args = <<>>
    /\ cache = EmptyMap
    /\ calls = 0

IsValidTokenFormat ==
    /\ pc = "idle"
    /\ pc' = "is_valid_token_format"
    /\ ret' = [value |-> is_valid_token_format(token)]
    /\ UNCHANGED <<config, max_retries, token, wire, now, args, cache, calls>>

NextFormat == IsValidTokenFormat

SpecFormat == InitFormat /\ [][NextFormat]_vars

\* the text has exactly two separators, no segment between or around them is empty,
\* and every other character is of the class [A-Za-z0-9_-]
ThreeCleanSegments(text) ==
    /\ Len(text) > 0
    /\ Cardinality({ i \in 1..Len(text) : text[i] = "." }) = 2
    /\ text[1] # "." /\ text[Len(text)] # "."
    /\ \A i \in 1..(Len(text) - 1) : ~(text[i] = "." /\ text[i + 1] = ".")
    /\ \A i \in 1..Len(text) : text[i] = "." \/ text[i] \in Base64UrlChars

\* C29: is_valid_token_format is true exactly for the strings of three non-empty
\* segments separated by '.', each made only of characters of [A-Za-z0-9_-].
C29_FormatIff ==
    pc = "is_valid_token_format"
        => (ret.value <=> (token.isstr /\ ThreeCleanSegments(token.text)))

\* ---------------------------------------------------------------------------
\* create_verification called from several threads on one client. A thread can be
\* overtaken where the call waits for the network, between the lookup in the cache
\* and the store of the answer: the call is three steps, the cache shared.

MaxThreads == 2

Threads == 1..MaxThreads

RaceKeys == { <<<<"a">>, "f1">>, <<<<"b">>, "f1">>, <<<<"a">>, "">> }

InitRace ==
    /\ config = PolicyConfig(EmptyMap)
    /\ max_retries = 3
    /\ wire = [i \in Threads |-> <<>>]
    /\ now = 0
    /\ token = Token(WellFormedText, Value(PyDict(EmptyMap)))
    /\ pc = [i \in Threads |-> "idle"]
    /\ ret = [i \in Threads |-> CallOutcome("", FALSE, "", <<>>, PyNone, 0)]
    /\ args = [i \in Threads |-> <<>>]
    /\ cache = EmptyMap
    /\ calls = 0

\* thread i enters create_verification: the checks of the arguments and the lookup,
\* up to the return of a cached verification or the miss
RaceLookup(i) ==
    /\ pc[i] = "idle"
    /\ \E key \in RaceKeys, metadata \in MetadataArgs :
           LET op == "create_verification"
               err == ArgumentError(key[1], key[2])
               cache_key == CacheKey(key[1], key[2])
               cached == cache[cache_key]
               expired == is_expired(cached, now)
           IN /\ args' = [args EXCEPT ![i] =
                              [call |-> op, model_id |-> key[1],
                               user_fingerprint |-> key[2], metadata |-> metadata]]
              /\ IF err # None
                 THEN /\ ret' = [ret EXCEPT ![i] =
                                     CallOutcome(op, TRUE, "ValidationError", err, PyNone, 0)]
                      /\ pc' = [pc EXCEPT ![i] = "done"]
                 ELSE IF cache_key \in DOMAIN cache /\ expired.raised
                 THEN /\ ret' = [ret EXCEPT ![i] =
                                     CallOutcome(op, TRUE, expired.etype, expired.msg,
                                                 PyNone, 0)]
                      /\ pc' = [pc EXCEPT ![i] = "done"]
                 ELSE IF cache_key \in DOMAIN cache /\ ~expired.value
                 THEN /\ ret' = [ret EXCEPT ![i] =
                                     CallOutcome(op, FALSE, "", <<>>, cached, 0)]
                      /\ pc' = [pc EXCEPT ![i] = "done"]
                 ELSE /\ ret' = ret
                      /\ pc' = [pc EXCEPT ![i] = "request"]
    /\ UNCHANGED <<config, max_retries, token, wire, now, cache, calls>>

\* thread i, having missed, asks the service and builds the verification
RaceRequest(i) ==
    /\ pc[i] = "request"
    /\ \E w \in CreateWires(now) :
           LET op == "create_verification"
               r == Request(w, max_retries)
               verification == VerificationResponse(r.body.d["verification_url"],
                                                    r.body.d["token"],
                                                    r.body.d["expires_in"], r.body)
           IN /\ wire' = [wire EXCEPT ![i] = w]
              /\ IF r.raised
                 THEN /\ ret' = [ret EXCEPT ![i] =
                                     CallOutcome(op, TRUE, r.etype, r.msg, PyNone,
                                                 r.attempts)]
                      /\ pc' = [pc EXCEPT ![i] = "done"]
                 ELSE IF r.body.t # "dict"
                 THEN /\ ret' = [ret EXCEPT ![i] =
                                     CallOutcome(op, TRUE, "TypeError",
                                                 <<TypeName(r.body),
                                                   " is not subscriptable by str">>,
                                                 PyNone, r.attempts)]
                      /\ pc' = [pc EXCEPT ![i] = "done"]
                 ELSE IF MissingField(r.body) # None
                 THEN /\ ret' = [ret EXCEPT ![i] =
                                     CallOutcome(op, TRUE, "KeyError",
                                                 MissingField(r.body), PyNone,
                                                 r.attempts)]
                      /\ pc' = [pc EXCEPT ![i] = "done"]
                 ELSE /\ ret' = [ret EXCEPT ![i] =
                                     CallOutcome(op, FALSE, "", <<>>, verification,
                                                 r.attempts)]
                      /\ pc' = [pc EXCEPT ![i] = "store"]
    /\ calls' = calls + 1
    /\ UNCHANGED <<config, max_retries, token, now, args, cache>>

\* thread i stores its verification under its key and returns it
RaceStore(i) ==
    /\ pc[i] = "store"
    /\ cache' = StoreEntry(cache,
                           CacheKey(args[i].model_id, args[i].user_fingerprint),
                           ret[i].value)
    /\ pc' = [pc EXCEPT ![i] = "done"]
    /\ UNCHANGED <<config, max_retries, token, wire, now, ret, args, calls>>

NextRace == \E i \in Threads : RaceLookup(i) \/ RaceRequest(i) \/ RaceStore(i)

SpecRace == InitRace /\ [][NextRace]_vars

\* the key of the call thread i is in
KeyOf(i) == <<args[i].model_id, args[i].user_fingerprint>>

\* thread i has returned a verification it asked the service for
Created(i) == pc[i] = "done" /\ ~ret[i].raised /\ ret[i].requests >= 1

\* C28: every call that misses the cache asks the service itself, also while another
\* call for the same key is under way; a call that stores its verification replaces
\* whatever the cache holds for the key; so when two calls for one key have both
\* missed and have received different tokens, one of them has returned a token that
\* is not the cached one.
C28_NoCoalescing ==
    [][ /\ \A i \in Threads :
               (pc[i] = "request" /\ pc'[i] # "request")
                   => (calls' = calls + 1 /\ ret'[i].requests >= 1)
        /\ \A i \in Threads :
               (pc[i] = "store" /\ pc'[i] = "done")
                   => (KeyOf(i) \in DOMAIN cache' /\ cache'[KeyOf(i)] = ret[i].value)
        /\ \A i, j \in Threads :
               (/\ i # j /\ Created(i)' /\ Created(j)' /\ KeyOf(i)' = KeyOf(j)'
                /\ ret'[i].value.token # ret'[j].value.token)
                   => \E k \in {i, j} : ret'[k].value.token # cache'[KeyOf(k)'].token
      ]_vars

\* C28 witness: threads 1 and 2 both missed for the same key, each made its own
\* request, thread 1 stored first and thread 2 after it: the cache holds the token of
\* thread 2 and thread 1 has returned another one
C28_Witness ==
    /\ Created(1) /\ Created(2) /\ KeyOf(1) = KeyOf(2)
    /\ calls = 2
    /\ ret[1].value.token # ret[2].value.token
    /\ cache[KeyOf(2)] = ret[2].value
    /\ cache[KeyOf(1)].token # ret[1].value.token

\* ---------------------------------------------------------------------------
\* further properties of the request executor, in SpecRequest

Is2xx(i) == 200 <= Status(i) /\ Status(i) < 300

\* C31: when the attempts before attempt k, k within the budget, met transient
\* failures (connection error, 429, 5xx) and attempt k meets a 2xx response with a
\* JSON body, the call returns that body; and no call ends at a non-final attempt
\* that met a transient failure.
C31_TransientHidden ==
    pc = "_request"
        => /\ \A k \in 0..(max_retries - 1) :
                  (/\ \A i \in 0..(k - 1) : IsTransient(i) \/ Is429(i)
                   /\ Is2xx(k) /\ Seen(k).json # None)
                      => /\ ~ret.raised
                         /\ ret.body = Seen(k).json[1]
                         /\ ret.attempts = k + 1
           /\ (ret.attempts >= 1 /\ ret.attempts < max_retries)
                  => ~(IsTransient(ret.attempts - 1) \/ Is429(ret.attempts - 1))

\* C32: a 2xx response whose body is no JSON ends the request with the generic
\* ModelSignatureError on the attempt it arrives: no attempt follows a 2xx response and
\* no sleep.
C32_InvalidJson ==
    pc = "_request"
        => /\ \A i \in 0..(ret.attempts - 2) : ~Is2xx(i)
           /\ (ret.attempts >= 1 /\ Is2xx(ret.attempts - 1)
               /\ Seen(ret.attempts - 1).json = None)
                  => /\ ret.raised /\ ret.etype = "ModelSignatureError"
                     /\ ret.msg = <<"Invalid JSON response">>
                     /\ Len(ret.sleeps) = ret.attempts - 1

\* C32 witness: the second attempt, after a retried 503, met a 200 that is no JSON, and
\* the call raised the generic error there although attempts remained
C32_Witness ==
    /\ pc = "_request" /\ max_retries >= 3
    /\ Status(0) = 503 /\ Is2xx(1) /\ Seen(1).json = None
    /\ ret.raised /\ ret.etype = "ModelSignatureError" /\ ret.attempts = 2

IsUnclassified(i) ==
    /\ Seen(i).kind = "http"
    /\ ~Is2xx(i)
    /\ Status(i) \notin {401, 403, 404, 422, 429}
    /\ Status(i) < 500

\* C33: an unclassified status is retried on a non-final attempt, and when every
\* attempt meets one the request makes max_retries attempts and raises the generic
\* ModelSignatureError.
C33_Unclassified ==
    /\ (pc = "_request" /\ ret.attempts >= 1 /\ ret.attempts < max_retries)
           => ~IsUnclassified(ret.attempts - 1)
    /\ EveryAttempt(IsUnclassified)
           => /\ ret.raised /\ ret.etype = "ModelSignatureError"
              /\ ret.attempts = max_retries
              /\ Len(ret.sleeps) = max_retries - 1

\* C33 witness: three attempts met 400 and then 418, and the call raised the generic
\* error after the third
C33_Witness ==
    /\ EveryAttempt(IsUnclassified) /\ max_retries = 3
    /\ Status(0) = 400 /\ Status(1) = 418
    /\ ret.etype = "ModelSignatureError" /\ ret.attempts = 3

\* the exceptions of modelsignature.exceptions
SdkErrors ==
    {"ModelSignatureError", "AuthenticationError", "ValidationError", "RateLimitError",
     "NetworkError", "ConflictError", "NotFoundError", "PolicyViolationError"}

\* C35: a request makes at most max_retries attempts and at most max_retries - 1
\* sleeps, none after its last attempt, and ends by returning a body or raising one of
\* the SDK errors.
C35_BoundedAndTyped ==
    pc = "_request"
        => /\ ret.attempts <= (IF max_retries < 0 THEN 0 ELSE max_retries)
           /\ Len(ret.sleeps) <= (IF max_retries < 1 THEN 0 ELSE max_retries - 1)
           /\ Len(ret.sleeps) <= (IF ret.attempts < 1 THEN 0 ELSE ret.attempts - 1)
           /\ ret.raised => ret.etype \in SdkErrors

\* ---------------------------------------------------------------------------
\* further properties of create_verification, in SpecCache

\* C36: on a client whose max_retries is 0 or less, every create_verification call
\* that passes the argument checks raises ModelSignatureError("Request failed")
\* without any HTTP attempt, and the cache stays empty.
C36_NoAttempts ==
    [][ max_retries <= 0
            => /\ cache = EmptyMap /\ cache' = EmptyMap
               /\ (calls' = calls + 1
                   /\ ArgumentError(args'.model_id, args'.user_fingerprint) = None)
                      => /\ ret'.raised /\ ret'.etype = "ModelSignatureError"
                         /\ ret'.emsg = <<"Request failed">>
                         /\ ret'.requests = 0 ]_vars

\* C36 witness: on a client with max_retries = 0 the second call for a key, like the
\* first, raised without an attempt although the service would have answered with a
\* verification
C36_Witness ==
    /\ pc = "create_verification" /\ max_retries = 0 /\ calls = 2
    /\ ArgumentError(args.model_id, args.user_fingerprint) = None
    /\ wire \in { <<Ok(b)>> : b \in CreateBodies(now) }
    /\ ret.raised /\ ret.requests = 0 /\ cache = EmptyMap

\* C37: a create_verification call that raises leaves the cache as it was: nothing
\* is added, and an entry of the key, expired or not, stays as it is.
C37_FailureKeepsCache ==
    [][ (calls' = calls + 1 /\ ret'.raised) => cache' = cache ]_vars

\* C37 witness: the call found the entry of its key past its expiry, made the create
\* request, which failed, and the expired entry is still in the cache
C37_Witness ==
    /\ pc = "create_verification"
    /\ ret.raised /\ ret.requests >= 1
    /\ CalledKey \in DOMAIN cache
    /\ PastExpiry(cache[CalledKey], now)

\* C38: a create_verification call for the pair of the call before it, with another
\* metadata, made while the entry of the pair is not past its expiry, returns the
\* cached token without request and leaves the cache as it is.
C38_MetadataIgnored ==
    [][ (/\ calls >= 1 /\ calls' = calls + 1
         /\ CalledKey' = CalledKey
         /\ args'.metadata # args.metadata
         /\ CalledKey' \in DOMAIN cache
         /\ ~PastExpiry(cache[CalledKey'], now))
            => /\ ~ret'.raised
               /\ ret'.requests = 0
               /\ ret'.value.token = cache[CalledKey'].token
               /\ cache' = cache ]_vars

\* ---------------------------------------------------------------------------
\* further properties of enforce_policy, in Spec

\* C39: a result of enforce_policy with allowed = true comes from a call that sent
\* the token to the service in one verify request, which returned a response, and
\* carries the verification decoded from that response, valid and with its claims.
C39_AllowedOnlyRemotely ==
    (Enforced /\ ~ret.raised /\ ret.result.allowed)
        => /\ is_valid_token_format(token)
           /\ ~Remote.raised
           /\ ret.requests >= 1 /\ ret.requests = Remote.attempts
           /\ ret.result.verification = DecodeResponse(Remote.body)
           /\ ret.result.verification.valid
           /\ Truthy(ret.result.verification.claims)

\* C39 witness: a token was allowed under a configuration that limits the age and
\* demands a deployment id, on the first answer of the service
C39_Witness ==
    /\ Enforced /\ ~ret.raised /\ ret.result.allowed
    /\ config.max_token_age # None /\ config.require_deployment_id
    /\ ret.requests = 1

\* the age computation of the token raises
AgeRaises == get_token_age(token, now).kind = "raise"

\* C40: enforce_policy raises nothing but PolicyViolationError; when the age
\* computation raises during the rule evaluation of a remotely valid token, the
\* violations are the "Verification request failed" one, the verification reported is
\* one with valid = false carrying the message, and the call raises
\* PolicyViolationError exactly in fail-closed mode.
C40_ExceptionBecomesViolation ==
    Enforced
        => /\ ret.raised => ret.etype = "PolicyViolationError"
           /\ (RemoteValid /\ config.max_token_age # None /\ AgeRaises)
                  => /\ Violations = << <<"Verification request failed: ">>
                                          \o get_token_age(token, now).msg >>
                     /\ ret.raised <=> config.fail_closed
                     /\ ~ret.raised
                            => /\ ~ret.result.allowed
                               /\ ~ret.result.verification.valid
                               /\ ret.result.verification.error
                                      = PyText(get_token_age(token, now).msg)
                               /\ ret.result.verification.claims = PyNone

\* C40 witness: in fail-closed mode the age computation raised on a remotely valid
\* token and the call raised PolicyViolationError with that one violation
C40_Witness ==
    /\ Enforced /\ RemoteValid /\ config.max_token_age # None /\ AgeRaises
    /\ config.fail_closed
    /\ ret.raised /\ ret.etype = "PolicyViolationError"
    /\ Len(ret.eviolations) = 1

\* ---------------------------------------------------------------------------
\* parse_jwt, get_token_age and is_token_expired on their own: the token is drawn,
\* one of the functions applied

\* payload[key] < now, payload holding key: [kind, b, msg]
LessThan(payload, key, t) ==
    IF payload.t # "dict"
    THEN [kind |-> "raise", b |-> FALSE,
          msg |-> <<TypeName(payload), " indices must be integers">>]
    ELSE LET v == payload.d[key]
         IN CASE v.t = "num"  -> [kind |-> "bool", b |-> v.n < t, msg |-> <<>>]
              [] v.t = "bool" -> [kind |-> "bool", b |-> (IF v.b THEN 1 ELSE 0) < t,
                                  msg |-> <<>>]
              [] OTHER        ->
                   [kind |-> "raise", b |-> FALSE,
                    msg |-> <<"'<' not supported between instances of '",
                              TypeName(v), "' and 'int'">>]

\* is_token_expired(token) at time t: [kind, b, msg], kind "none", "bool" or "raise"
is_token_expired(tok, t) ==
    LET payload == parse_jwt(tok)
        Unknown == [kind |-> "none", b |-> FALSE, msg |-> <<>>]
    IN IF ~Truthy(payload) THEN Unknown
       ELSE LET c == Contains(payload, "exp")
            IN IF c.raises
               THEN [kind |-> "raise", b |-> FALSE,
                     msg |-> <<"argument of type '", TypeName(payload),
                               "' is not iterable">>]
               ELSE IF ~c.found THEN Unknown
               ELSE LessThan(payload, "exp", t)

\* what the middle segment decodes to: the payloads of the policy engine's tokens,
\* and text that is no JSON, an empty object, and objects with an exp claim
JwtPayloads(t) ==
    Payloads(t)
    \cup { [kind |-> "jsonerr", value |-> PyNone],
           Value(EmptyDict),
           Value(PyDict("exp" :> PyNum(t - 1))),
           Value(PyDict("exp" :> PyNum(t + 1))),
           Value(PyDict("exp" :> PyStr("tomorrow"))),
           Value(PyDict(("iat" :> PyNum(t - 100)) @@ ("exp" :> PyNum(t + 100)))) }

JwtTokens(t) ==
    { Token(text, p) : text \in {WellFormedText, TwoSegments, FourSegments},
                       p \in JwtPayloads(t) }
    \cup { Token(<<>>, [kind |-> "b64err", value |-> PyNone]),
           [isstr |-> FALSE, text |-> <<>>, payload |-> [kind |-> "b64err", value |-> PyNone]] }

InitJwt ==
    /\ config = PolicyConfig(EmptyMap)
    /\ max_retries = 3
    /\ token \in JwtTokens(1000)
    /\ wire = <<>>
    /\ now = 1000
    /\ pc = "idle"
    /\ ret = [kind |-> "none"]
    /\ args = <<>>
    /\ cache = EmptyMap
    /\ calls = 0

\* payload = parse_jwt(token)
ParseJwt ==
    /\ pc = "idle"
    /\ pc' = "parse_jwt"
    /\ ret' = [kind |-> "value", value |-> parse_jwt(token)]
    /\ UNCHANGED <<config, max_retries, token, wire, now, args, cache, calls>>

\* age = get_token_age(token)
GetTokenAge ==
    /\ pc = "idle"
    /\ pc' = "get_token_age"
    /\ ret' = get_token_age(token, now)
    /\ UNCHANGED <<config, max_retries, token, wire, now, args, cache, calls>>

\* expired = is_token_expired(token)
IsTokenExpired ==
    /\ pc = "idle"
    /\ pc' = "is_token_expired"
    /\ ret' = is_token_expired(token, now)
    /\ UNCHANGED <<config, max_retries, token, wire, now, args, cache, calls>>

NextJwt == ParseJwt \/ GetTokenAge \/ IsTokenExpired

SpecJwt == InitJwt /\ [][NextJwt]_vars

\* the token is a string of three segments whose middle segment decodes to JSON
Decodes ==
    /\ token.isstr
    /\ Len(Split(token.text, ".")) = 3
    /\ token.payload.kind = "value"

\* the token decodes to a claim map that holds the claim
HasClaim(key) ==
    /\ Decodes
    /\ token.payload.value.t = "dict"
    /\ key \in DOMAIN token.payload.value.d

\* C34: parse_jwt returns what the middle segment decodes to when the token has three
\* segments and the segment is base64url-encoded JSON, and None otherwise; and
\* get_token_age and is_token_expired return None, and do not raise, whenever the
\* token gives no claim map that holds iat, respectively exp.
C34_UnknownNotRaised ==
    /\ pc = "parse_jwt"
           => ret.value = (IF Decodes THEN token.payload.value ELSE PyNone)
    /\ (pc = "get_token_age" /\ ~HasClaim("iat")) => ret.kind = "none"
    /\ (pc = "is_token_expired" /\ ~HasClaim("exp")) => ret.kind = "none"

====
